---- MODULE Spec2Model ----
(***************************************************************************)
(* Swap execution and confirmation pipeline of the solana_scripts          *)
(* repository: executeSwap and checkTransactionStatus of get-tokens.js,    *)
(* executeSwap of the earlier swap script (src/unnamed/part_000) and of    *)
(* interactive-swap.js / interactive-swap-devnet.js, and the part of main  *)
(* that reports the result.                                                *)
(*                                                                         *)
(* The quote service (axios), the web3.js library and the ledger are the   *)
(* environment: every call either returns one of its possible values or    *)
(* throws, chosen with \E in the action that makes the call.               *)
(***************************************************************************)
EXTENDS Integers, Sequences, FiniteSets, TLC

\* ------------------------------------------------------------------ bounds
\* longest transaction signature the ledger hands out (in characters)
MaxSigLen == 2
\* longest text following "Check signature " in an error message
MaxTailLen == 3
\* longest token list looked up
MaxTokens == 3
\* longest token list served by the token-list URL
MaxServed == 2
\* longest token list of a quote run
MaxQuoteTokens == 2
\* amounts formatted are m * 10^k with m up to MaxMantissa, k up to MaxExponent
MaxMantissa == 12
MaxExponent == 6
\* largest decimals of a token
MaxDecimals == 6
\* longest value of SOLANA_PRIVATE_KEY
MaxEnvLen == 2
\* calls of createTokenAccountIfNeeded in one behaviour
MaxAtaCalls == 3

\* ------------------------------------------------------- program constants
\* checkTransactionStatus(connection, signature, maxRetries = 10, ...)
MaxRetries == 10
\* checkTransactionStatus(..., initialDelayMs = 500)
InitialDelayMs == 500

\* ------------------------------------------------------------------ values
\* the three script families: get-tokens.js, src/unnamed/part_000 and
\* interactive-swap.js / interactive-swap-devnet.js (same executeSwap)
GT == "get-tokens"
P0 == "part_000"
IS == "interactive-swap"
Scripts == {GT, P0, IS}
ISD == "interactive-swap-devnet"

\* characters of messages: two alphanumeric ones and a separator
Alnum == {"A", "9"}
Chars == Alnum \cup {" "}

SeqsUpTo(S, n) == UNION {[1..k -> S] : k \in 0..n}

\* JavaScript null / undefined / no value (falsy, like the empty string)
Null == <<>>
\* signatures are non-empty base58 (alphanumeric) strings
Sigs == SeqsUpTo(Alnum, MaxSigLen) \ {Null}
Tails == SeqsUpTo(Chars, MaxTailLen)

\* the message of an Error thrown by a ledger call, by what the code looks
\* at: the two phrases tested with includes(), and the text that follows
\* the phrase "Check signature " (hasPhrase = FALSE: the phrase is absent)
Msgs == [wasNotConfirmed : BOOLEAN, unknownIfSucceeded : BOOLEAN,
         hasPhrase : BOOLEAN, tail : Tails]
PlainMsg == [wasNotConfirmed |-> FALSE, unknownIfSucceeded |-> FALSE,
             hasPhrase |-> FALSE, tail |-> <<>>]

\* responses of connection.getSignatureStatus: null, {value: null} or
\* {value: {err, confirmationStatus}}
StatusValues == [err : {"none", "InstructionError"},
                 confirmationStatus : {"null", "processed", "confirmed", "finalized"}]
StatusResponses == {[isNull |-> TRUE, hasValue |-> FALSE,
                     value |-> [err |-> "none", confirmationStatus |-> "null"]]}
                   \cup {[isNull |-> FALSE, hasValue |-> FALSE,
                     value |-> [err |-> "none", confirmationStatus |-> "null"]]}
                   \cup {[isNull |-> FALSE, hasValue |-> TRUE, value |-> v] : v \in StatusValues}

RECURSIVE Pow(_, _)
Pow(b, e) == IF e = 0 THEN 1 ELSE b * Pow(b, e - 1)

\* ------------------------------------------------------------ pure helpers
\* the capture group ([A-Za-z0-9]+) applied at the start of t: the longest
\* run of alphanumeric characters t begins with
RECURSIVE AlnumPrefix(_)
AlnumPrefix(t) ==
    IF t = <<>> \/ Head(t) \notin Alnum THEN <<>>
    ELSE <<Head(t)>> \o AlnumPrefix(Tail(t))

\* a capture group without the +: one character only
MatchSignatureOneChar(msg) ==
    IF msg.hasPhrase /\ msg.tail # <<>> /\ Head(msg.tail) \in Alnum
    THEN <<Head(msg.tail)>> ELSE Null

\* txError.message.match(/Check signature ([A-Za-z0-9]+)/), then
\* signatureMatch && signatureMatch[1]: the captured text, Null on no match
MatchSignature(msg) ==
    IF msg.hasPhrase THEN AlnumPrefix(msg.tail) ELSE Null

\* message.includes("was not confirmed") && message.includes("It is unknown if it succeeded")
IsTimeoutLike(msg) == msg.wasNotConfirmed /\ msg.unknownIfSucceeded

\* the signatures a reader of the printed message sees in it
Mentions(msg) ==
    IF msg.hasPhrase /\ AlnumPrefix(msg.tail) # <<>> THEN {AlnumPrefix(msg.tail)} ELSE {}

\* the message web3.js attaches to a confirmation timeout for signature s
TimeoutMsg(s) == [wasNotConfirmed |-> TRUE, unknownIfSucceeded |-> TRUE,
                  hasPhrase |-> TRUE, tail |-> s \o <<" ">>]

\* the loop without the err test
StatusVerdictIgnoreErr(resp) ==
    IF ~resp.isNull /\ resp.hasValue
          /\ resp.value.confirmationStatus \in {"confirmed", "finalized"}
    THEN "true" ELSE "retry"

\* what one status response means to the polling loop
StatusVerdict(resp) ==
    IF ~resp.isNull /\ resp.hasValue
    THEN IF resp.value.err # "none" THEN "false"
         ELSE IF resp.value.confirmationStatus \in {"confirmed", "finalized"} THEN "true"
         ELSE "retry"
    ELSE "retry"

\* a catch block that does not count the failed attempt
RetriesAfterThrowSame(r) == r

\* retries++ in the catch block of the polling loop
RetriesAfterThrow(r) == r + 1

\* a loop that runs once more: retries <= maxRetries
WhileConditionOffByOne(r) == r <= MaxRetries

\* while (retries < maxRetries)
WhileCondition(r) == r < MaxRetries

\* delay *= 2
NextDelayDouble(d) == [num |-> d.num * 2, den |-> d.den]

\* delay *= 1.5, on the fraction num/den (exact in double precision for
\* every delay the loop can reach: 500 * 3^k / 2^k, k <= maxRetries)
NextDelay(d) == [num |-> d.num * 3, den |-> d.den * 2]

\* a final check that ignores the record
HistoryVerdictUnknown(hasRecord) == "null"

\* the final check: a transaction record means confirmed, else unknown
HistoryVerdict(hasRecord) == IF hasRecord THEN "true" ELSE "null"

\* return null unless confirmed
ResultForStatusConfirmedOnly(st, id) == IF st = "true" THEN id ELSE Null

\* what executeSwap returns for a checkTransactionStatus result
ResultForStatus(st, id) == IF st = "false" THEN Null ELSE id

\* an outcome that reports an unknown status as confirmed
OutcomeForStatusNoUnknown(st) == IF st = "false" THEN "Failed" ELSE "Confirmed"

\* the outcome executeSwap reports for a checkTransactionStatus result
OutcomeForStatus(st) ==
    IF st = "true" THEN "Confirmed" ELSE IF st = "false" THEN "Failed" ELSE "Unknown"

\* outcomes of axios.post(.../swap): the call throws, or it resolves with no
\* data, with data lacking swapTransaction, or with the payload
SwapResponses == {"threw", "noData", "noPayload", "payload"}

\* a payload check that looks at swapResponse.data only
HasSwapTransactionDataOnly(resp) == resp \in {"noPayload", "payload"}

\* !( !swapResponse.data || !swapResponse.data.swapTransaction )
HasSwapTransaction(resp) == resp = "payload"

\* recovery without the timeout test: any message with a signature recovers
LegacyFailureAnyMatch(msg) ==
    IF MatchSignature(msg) # Null THEN "recover" ELSE "throw"

\* where a failed sendAndConfirmTransaction of get-tokens.js goes:
\* "recover" (txid taken from the message) or "throw"
LegacyFailure(msg) ==
    IF IsTimeoutLike(msg) /\ MatchSignature(msg) # Null THEN "recover" ELSE "throw"

\* no early return after a successful sendAndConfirmTransaction
LegacySuccessSettle == "settle"

\* where a successful sendAndConfirmTransaction of get-tokens.js goes
LegacySuccess == "return"

\* ------------------------------------------------------------ token lists
\* symbols are strings of characters, so that letter case is visible
SOL == <<"S", "O", "L">>
ListedSymbols == {SOL, <<"w", "S", "O", "L">>, <<"U", "S", "D", "C">>}
QuerySymbols ==
    {SOL, <<"s", "o", "l">>, <<"S", "o", "l">>, <<"S", "O">>,
     <<"w", "s", "o", "l">>, <<"U", "S", "D", "C">>, <<"X">>}

\* "So11111111111111111111111111111111111111112" and any other mint
WsolMint == "So11111111111111111111111111111111111111112"
OtherMint == "otherMint"

\* a record of the token list; verified stands for tags holding "verified",
\* isNative is FALSE where the field is absent
Tokens ==
    [address : {WsolMint, OtherMint}, symbol : ListedSymbols, name : {"listed"},
     verified : BOOLEAN, isNative : {FALSE}]
TokenLists == SeqsUpTo(Tokens, MaxTokens)

\* the value of a failed find and of an unset token
Undefined == [undefined |-> TRUE]

\* String.prototype.toUpperCase
UpperOf(c) ==
    CASE c = "s" -> "S" [] c = "o" -> "O" [] c = "l" -> "L" [] c = "w" -> "W"
      [] OTHER -> c
ToUpperCase(str) == [i \in 1..Len(str) |-> UpperOf(str[i])]

\* String.prototype.includes
Includes(str, sub) ==
    \E i \in 0..(Len(str) - Len(sub)) : SubSeq(str, i + 1, i + Len(sub)) = sub

\* Array.prototype.find, given the elements that pass its test in list order
Find(hits) == IF hits = <<>> THEN Undefined ELSE Head(hits)

\* a test that compares the argument as typed
IsSolQueryAsTyped(sym) == sym = SOL

\* symbol.toUpperCase() === "SOL"
IsSolQuery(sym) == ToUpperCase(sym) = SOL

\* a partial match that takes the first match whatever its tags
PickMatchFirst(matches) ==
    IF Len(matches) >= 1 THEN matches[1] ELSE Undefined

\* the choice among the partial matches
PickMatch(matches) ==
    LET verifiedMatch == Find(SelectSeq(matches, LAMBDA t : t.verified))
    IN  IF Len(matches) > 1
        THEN IF verifiedMatch # Undefined THEN verifiedMatch ELSE matches[1]
        ELSE IF Len(matches) = 1 THEN matches[1]
        ELSE Undefined

\* the record returned for native SOL
NativeSol(wsolToken) ==
    [wsolToken EXCEPT !.name = "Native SOL", !.symbol = SOL, !.isNative = TRUE]

\* findTokenBySymbol of interactive-swap.js and interactive-swap-devnet.js,
\* and the part of get-tokens.js and part_000 after the special case
FindTokenBySymbolPlain(list, sym) ==
    LET upper == ToUpperCase(sym)
        token == Find(SelectSeq(list, LAMBDA t : ToUpperCase(t.symbol) = upper))
        matches == SelectSeq(list, LAMBDA t : Includes(ToUpperCase(t.symbol), upper))
    IN  IF token # Undefined THEN token ELSE PickMatch(matches)

\* findTokenBySymbol of the script s
FindTokenBySymbol(s, list, sym) ==
    LET wsolToken == Find(SelectSeq(list, LAMBDA t : t.address = WsolMint))
    IN  IF s \in {GT, P0} /\ IsSolQuery(sym) /\ wsolToken # Undefined
        THEN NativeSol(wsolToken)
        ELSE FindTokenBySymbolPlain(list, sym)


\* ------------------------------------------------------------ token cache
\* the cache files and the networks
MainnetFile == "jupiter_tokens.json"
DevnetFile == "jupiter_tokens_devnet.json"
CacheFiles == {MainnetFile, DevnetFile}
Mainnet == "mainnet-beta"
Devnet == "devnet"
\* values of SOLANA_NETWORK (unset gives the script's default)
Networks == {Mainnet, Devnet, "testnet"}

\* NETWORK_CONFIG[NETWORK] || NETWORK_CONFIG["mainnet-beta"]
NetworkOf(net) == IF net = Devnet THEN Devnet ELSE Mainnet

\* one cache file whatever the network: TOKEN_CACHE_FILE
CacheFileForDefault(net) == MainnetFile

\* NETWORK === "devnet" ? "jupiter_tokens_devnet.json" : "jupiter_tokens.json"
CacheFileFor(net) == IF net = Devnet THEN DevnetFile ELSE MainnetFile

\* records served by the token-list URL: a popular and another symbol, with
\* or without the devnet tag
ServedTokens == [symbol : {"USDC", "BONK"}, tags : {<<>>, <<"devnet">>}]
ServedLists == SeqsUpTo(ServedTokens, MaxServed)
PopularTokens == {"USDC", "SOL", "WSOL"}

\* POPULAR_TOKENS.includes(token.symbol) || token.tags?.includes("devnet")
DevnetFilter(tokens) ==
    SelectSeq(tokens, LAMBDA token :
        token.symbol \in PopularTokens
            \/ \E i \in 1..Len(token.tags) : token.tags[i] = "devnet")

\* JSON.stringify of a token list, as a sequence of lexical units
StringifyToken(token) ==
    <<"{", token.symbol, "[">> \o token.tags \o <<"]", "}">>
RECURSIVE StringifyTokens(_)
StringifyTokens(tokens) ==
    IF tokens = <<>> THEN <<>>
    ELSE IF Len(tokens) = 1 THEN StringifyToken(tokens[1])
    ELSE StringifyToken(tokens[1]) \o <<",">> \o StringifyTokens(Tail(tokens))
Stringify(tokens) == <<"[">> \o StringifyTokens(tokens) \o <<"]">>

\* JSON.parse of such a text: the units from position i on
RECURSIVE ParseTags(_, _)
ParseTags(text, i) ==
    IF text[i] = "]" THEN <<>>
    ELSE IF text[i] = "," THEN ParseTags(text, i + 1)
    ELSE <<text[i]>> \o ParseTags(text, i + 1)
RECURSIVE ParseTokens(_, _)
ParseTokens(text, i) ==
    IF text[i] = "]" THEN <<>>
    ELSE IF text[i] = "," THEN ParseTokens(text, i + 1)
    ELSE LET tags == ParseTags(text, i + 3)
         IN  <<[symbol |-> text[i + 1], tags |-> tags]>>
                 \o ParseTokens(text, i + 3 + Len(tags) + 2)
Parse(text) == ParseTokens(text, 2)

\* no such file
Absent == <<>>

\* what one run left behind: the network it ran on, the cache files it
\* probed, read or wrote, whether the cache file existed, whether it made
\* the request, whether it wrote, whether it exited, and what it returned
NoCall ==
    [by |-> "none", net |-> Mainnet, touched |-> {}, cached |-> FALSE,
     fetched |-> FALSE, wrote |-> FALSE, exited |-> FALSE, returned |-> <<>>]

\* ---------------------------------------------------------------- quotes
\* POPULAR_TOKENS of get-tokens.js
USDC == <<"U", "S", "D", "C">>
WSOL == <<"W", "S", "O", "L">>
POPULAR_TOKENS == <<USDC, SOL, WSOL>>
QuoteTokenLists == SeqsUpTo(Tokens, MaxQuoteTokens)

\* what a quote request can give: data that is a quote, data that is falsy,
\* or a failure (no route, HTTP error, network error)
QuoteAnswers == {"quote", "empty", "threw"}

\* a test that takes whatever the request resolved with
IsQuoteAnyData(answer) == answer # "threw"

\* if (quote), on what getSwapQuote returned
IsQuote(answer) == answer = "quote"

\* a request that is not awaited: the caller goes on where it was
AfterRequestNoAwait(pos) == pos

\* where main is after issuing a quote request: awaiting it
AfterRequest(pos) == IF pos = "loop" THEN "awaitQuote" ELSE "awaitCustom"

\* ---------------------------------------------------------- number display
\* amounts in smallest units and token decimals
Amounts == {m * Pow(10, k) : m \in 0..MaxMantissa, k \in 0..MaxExponent}
DecimalsValues == 0..MaxDecimals

DigitOf(n) == <<"0", "1", "2", "3", "4", "5", "6", "7", "8", "9">>[n + 1]
RECURSIVE DigitsOf(_)
DigitsOf(n) ==
    IF n < 10 THEN <<DigitOf(n)>> ELSE Append(DigitsOf(n \div 10), DigitOf(n % 10))

\* en-US grouping of the integer digits
RECURSIVE Grouped(_)
Grouped(ds) ==
    IF Len(ds) <= 3 THEN ds
    ELSE Grouped(SubSeq(ds, 1, Len(ds) - 3)) \o <<",">> \o SubSeq(ds, Len(ds) - 2, Len(ds))

RECURSIVE PadLeft(_, _)
PadLeft(ds, width) == IF Len(ds) >= width THEN ds ELSE PadLeft(<<"0">> \o ds, width)

\* trailing zeros beyond the minimum number of fraction digits are dropped
RECURSIVE TrimZeros(_, _)
TrimZeros(ds, min) ==
    IF Len(ds) > min /\ ds[Len(ds)] = "0"
    THEN TrimZeros(SubSeq(ds, 1, Len(ds) - 1), min)
    ELSE ds

\* a format that keeps two fraction digits
MinimumFractionDigitsTwo(maxDigits) == IF maxDigits < 2 THEN maxDigits ELSE 2

\* minimumFractionDigits is not given to toLocaleString: its default
MinimumFractionDigits(maxDigits) == 0

\* formatTokenAmount: parseFloat(amount) / Math.pow(10, decimals), then
\* toLocaleString('en-US', { maximumFractionDigits: decimals })
FormatTokenAmount(amount, decimals) ==
    LET scale == Pow(10, decimals)
        fraction == TrimZeros(PadLeft(DigitsOf(amount % scale), decimals),
                              MinimumFractionDigits(decimals))
    IN  Grouped(DigitsOf(amount \div scale))
            \o (IF decimals = 0 \/ fraction = <<>> THEN <<>> ELSE <<".">> \o fraction)

\* --------------------------------------------------------------- wallet key
\* values of process.env.SOLANA_PRIVATE_KEY: strings of '[', ',' and key
\* characters; the empty string stands for unset as well (both are falsy)
EnvChars == {"[", ",", "k"}
EnvValues == SeqsUpTo(EnvChars, MaxEnvLen)

\* a dispatch that looks for the comma first
KeyRouteCommaFirst(env) ==
    IF Includes(env, <<",">>) THEN "csv"
    ELSE IF Includes(env, <<"[">>) THEN "json"
    ELSE "base58"

\* the format chosen for a non-empty SOLANA_PRIVATE_KEY
KeyRoute(env) ==
    IF Includes(env, <<"[">>) THEN "json"
    ELSE IF Includes(env, <<",">>) THEN "csv"
    ELSE "base58"

\* ----------------------------------------------------------- token accounts
Owners == {"owner1", "owner2"}
Mints == {"mint1", "mint2"}

\* findAssociatedTokenAddress: the program-derived address of owner and mint
FindAssociatedTokenAddress(owner, mint) == <<owner, mint>>
AtaAddresses == {FindAssociatedTokenAddress(o, m) : o \in Owners, m \in Mints}

\* a check that always asks for the account to be created
NeedsCreationAlways(exists) == TRUE

\* if (!tokenAccount), on what getAccountInfo returned
NeedsCreation(exists) == ~exists

NoAtaCall ==
    [owner |-> "none", mint |-> "none", existed |-> FALSE, sent |-> FALSE,
     ended |-> "none", address |-> <<>>]

\* ---------------------------------------------------------------------
\* main: what the user types and the numbers made of it
\* ---------------------------------------------------------------------

\* the longest answer typed at a prompt, in characters
MaxInputLen == 2

\* the most quote requests one run of main makes
MaxMainQuotes == 2

\* the scripts with the swap dialogue; ISD is the first script of
\* interactive-swap-devnet.js
MainScripts == {GT, P0, IS, ISD}

\* characters of an amount; the word Infinity is one character here
AmountChars == {"-", "0", "1", ".", "x", "Infinity"}

\* characters of a selection
SelectionChars == {"0", "1", "2", "x"}

DigitChars == {"0", "1", "2"}

AmountTexts == UNION {[1..n -> AmountChars] : n \in 0..MaxInputLen}

SelectionTexts == UNION {[1..n -> SelectionChars] : n \in 0..MaxInputLen}

\* answers to a (y/n) prompt
Answers == {"y", "Y", "n", "yes", ""}

\* a JavaScript number: NaN, an infinity with its sign, or a finite value
NaN == [kind |-> "NaN", val |-> 0]

Infinite(sign) == [kind |-> "Infinity", val |-> sign]

Finite(n) == [kind |-> "finite", val |-> n]

\* null where a number is expected
NullNumber == [kind |-> "null", val |-> 0]

\* not yet assigned
Unset == [kind |-> "unset", val |-> 0]

\* finite results of parseFloat are counted in units of 10^-MaxInputLen,
\* which holds every fraction an answer can spell
Scale == Pow(10, MaxInputLen)

DigitValue(c) == CASE c = "0" -> 0 [] c = "1" -> 1 [] c = "2" -> 2

RECURSIVE DigitsPrefixLen(_)
DigitsPrefixLen(t) ==
    IF t = <<>> \/ Head(t) \notin DigitChars THEN 0
    ELSE 1 + DigitsPrefixLen(Tail(t))

RECURSIVE NumberOfDigits(_)
NumberOfDigits(ds) ==
    IF ds = <<>> THEN 0
    ELSE NumberOfDigits(SubSeq(ds, 1, Len(ds) - 1)) * 10 + DigitValue(ds[Len(ds)])

Negate(x) ==
    IF x.kind = "NaN" THEN x ELSE [kind |-> x.kind, val |-> 0 - x.val]

\* parseFloat after the sign: Infinity, or digits with an optional
\* fraction; what follows the longest such prefix is ignored
UnsignedFloat(t) ==
    IF t # <<>> /\ Head(t) = "Infinity" THEN Infinite(1)
    ELSE LET n == DigitsPrefixLen(t)
             rest == SubSeq(t, n + 1, Len(t))
             m == IF rest # <<>> /\ Head(rest) = "."
                  THEN DigitsPrefixLen(Tail(rest)) ELSE 0
         IN  IF n = 0 /\ m = 0 THEN NaN
             ELSE Finite(NumberOfDigits(SubSeq(t, 1, n)) * Scale
                         + NumberOfDigits(SubSeq(rest, 2, m + 1))
                           * Pow(10, MaxInputLen - m))

\* parseFloat(text)
ParseFloat(t) ==
    IF t # <<>> /\ Head(t) = "-" THEN Negate(UnsignedFloat(Tail(t)))
    ELSE UnsignedFloat(t)

UnsignedInt(t) ==
    LET n == DigitsPrefixLen(t)
    IN  IF n = 0 THEN NaN ELSE Finite(NumberOfDigits(SubSeq(t, 1, n)))

\* parseInt(text): a whole number, not scaled
ParseInt(t) ==
    IF t # <<>> /\ Head(t) = "-" THEN Negate(UnsignedInt(Tail(t)))
    ELSE UnsignedInt(t)

IsNaN(x) == x.kind = "NaN"

\* x <= 0
AtMostZero(x) ==
    \/ x.kind = "finite" /\ x.val <= 0
    \/ x.kind = "Infinity" /\ x.val < 0

\* Math.floor(parseFloat(amount) * Math.pow(10, decimals)), a whole number
\* of smallest units
SmallestUnit(x, d) ==
    IF x.kind = "finite" THEN Finite((x.val * Pow(10, d)) \div Scale)
    ELSE x

InvalidAmountNaNOnly(x) == IsNaN(x)

\* isNaN(inputAmountInSmallestUnit) || inputAmountInSmallestUnit <= 0
InvalidAmount(x) == IsNaN(x) \/ AtMostZero(x)

\* balance !== null && parseFloat(amount) > balance
ExceedsBalance(x, b) ==
    /\ b.kind # "null"
    /\ \/ x.kind = "finite" /\ x.val > b.val
       \/ x.kind = "Infinity" /\ x.val > 0

\* parseInt(selection) - 1
SelectedIndex(t) ==
    LET x == ParseInt(t)
    IN  IF x.kind = "finite" THEN Finite(x.val - 1) ELSE x

\* isNaN(selectedIndex) || selectedIndex < 0 || selectedIndex >= quotes.length
InvalidSelection(i, n) == IsNaN(i) \/ i.val < 0 \/ i.val >= n

\* answer.toLowerCase()
ToLowerCase(a) == IF a = "Y" THEN "y" ELSE a

ConfirmedAnyAnswer(a) == a # "n"

\* confirm.toLowerCase() === 'y'
Confirmed(a) == ToLowerCase(a) = "y"

\* balances a read can return, in the units of parseFloat: none and one token
Balances == {Finite(0), Finite(Scale)}

\* a balance as a number in a comparison: null counts as 0
ToNumber(b) == IF b.kind = "null" THEN 0 ELSE b.val

VerifiedByBalanceOrEqual(newTo, newFrom, before) ==
    /\ newTo.kind # "null" /\ newFrom.kind # "null"
    /\ ToNumber(newFrom) <= ToNumber(before)

\* newToTokenBalance !== null && newFromTokenBalance !== null, and then
\* newFromTokenBalance < balance
VerifiedByBalance(newTo, newFrom, before) ==
    /\ newTo.kind # "null" /\ newFrom.kind # "null"
    /\ ToNumber(newFrom) < ToNumber(before)


VARIABLES
    script,        \* which script's executeSwap runs
    pc,            \* position of the run
    txid,          \* executeSwap's txid variable (Null while unset)
    returned,      \* executeSwap has returned
    result,        \* its return value: a signature or Null
    outcome,       \* "none", "Confirmed", "Failed", "Unknown"
    escaped,       \* an exception left executeSwap
    printed,       \* signatures written to the console so far
    builds,        \* POST /swap requests made
    swapResponse,  \* what POST /swap gave: "none" (not asked), "threw", "noData",
                   \* "noPayload" (data without swapTransaction), "payload"
    rawSends,      \* connection.sendRawTransaction calls
    legacySends,   \* sendAndConfirmTransaction calls
    versioned,     \* VersionedTransaction.deserialize: "untried", "ok", "failed"
    legacyEntered, \* Transaction.from was called
    submitted,     \* signature a submission call returned (Null if none did)
    submittedBy,   \* the call that returned it: "none", "raw", "legacy"
    recovered,     \* txid was parsed out of a timeout error message
    lastMsg,       \* message of the error sendAndConfirmTransaction threw
    settleDelays,  \* sleep(1000) calls
    confirmCalls,  \* connection.confirmTransaction calls
    directErr,     \* the direct confirmation resolved with value.err set
    polling,       \* checkTransactionStatus was called
    retries,       \* checkTransactionStatus: retries
    delay,         \* checkTransactionStatus: delay (a fraction num/den of ms)
    queries,       \* getSignatureStatus calls
    sleeps,        \* the delays slept between status queries, in order
    lookups,       \* getParsedTransaction calls
    status,        \* checkTransactionStatus result: "none", "true", "false", "null"
    errSeen,       \* a status response carried an err field
    inconclusive,  \* status queries that returned without a verdict
    threw,         \* status queries that threw
    found          \* the history lookup: "none" (not made), "record", "nothing", "threw"

swapVars == <<script, pc, txid, returned, result, outcome, escaped, printed, builds,
          swapResponse, rawSends, legacySends, versioned, legacyEntered, submitted, submittedBy,
          recovered, lastMsg, settleDelays, confirmCalls, directErr, polling, retries, delay,
          queries, sleeps, lookups, status, errSeen, inconclusive, threw, found>>

VARIABLES
    lkScript,      \* the script whose findTokenBySymbol is called
    tokenList,     \* its tokenList argument
    symbol,        \* its symbol argument
    lkPc,          \* "idle", "call" (called, not returned), "done"
    lkResult       \* its return value

lookupVars == <<lkScript, tokenList, symbol, lkPc, lkResult>>

VARIABLES
    files,         \* content of each cache file, Absent if there is none
    written,       \* the list each cache file was written from
    remote,        \* the list the token-list URL serves now
    remoteLater,   \* the list it serves after its next update
    lastCall       \* what the last run did

cacheVars == <<files, written, remote, remoteLater, lastCall>>

VARIABLES
    qPc,           \* position of main: "idle", "loop", "awaitQuote", "custom",
                   \* "awaitCustom", "display", "select", "exit"
    qIndex,        \* position of the quote loop in POPULAR_TOKENS
    fromToken,     \* the token swapped from
    requests,      \* the quote requests issued so far, with their answers
    inFlight,      \* the requests issued and not yet answered
    quotes         \* main's quotes array

quoteVars == <<qPc, qIndex, fromToken, requests, inFlight, quotes>>

VARIABLES
    fmtPc,         \* "idle", "call" (formatTokenAmount called), "done"
    amount,        \* its amount argument
    decimals,      \* its decimals argument
    display        \* the string it returned

formatVars == <<fmtPc, amount, decimals, display>>

VARIABLES
    keyScript,      \* the script whose loadWalletKey is called
    privateKeyEnv,  \* process.env.SOLANA_PRIVATE_KEY
    keyPc,          \* "idle", "call", "returned", "exited"
    keyRoute,       \* "none", "json", "csv", "base58", "file"
    keyFileReads,   \* readFileSync(keyPath) calls
    keyFailed,      \* parsing, decoding or Keypair.fromSecretKey threw
    keyExit         \* the exit status, -1 while the process runs

keyVars == <<keyScript, privateKeyEnv, keyPc, keyRoute, keyFileReads, keyFailed, keyExit>>

VARIABLES
    accounts,      \* the associated token accounts that exist on the ledger
    ataSends,      \* account-creation transactions sent, per address
    succeeded,     \* addresses for which a call has returned
    returnedAta,   \* the addresses returned so far, per owner and mint
    lastAta,       \* what the last call did
    ataCalls       \* calls made

ataVars == <<accounts, ataSends, succeeded, returnedAta, lastAta, ataCalls>>

VARIABLES
    mainScript,    \* which script's main runs
    mainPc,        \* where main is
    exitCode,      \* the status given to process.exit, -1 while none was given
    fromDecimals,  \* fromToken.decimals
    balance,       \* the source balance read before the swap, or null
    amountText,    \* the amount as typed
    inputAmountInSmallestUnit,
    quoteRequests, \* the amount of each quote request sent, in order
    mainQuotes,    \* quotes: the numbers of the requests that were answered
    selection,     \* the selection as typed
    selectedIndex,
    confirm,       \* the answer to "Execute this swap?"
    executed,      \* the quotes handed to executeSwap, in order
    buildRequests, \* swap-build requests sent
    submissions,   \* transactions submitted
    mainTxid,      \* what executeSwap returned: "unset", "null" or "sig"
    balanceReads,  \* getTokenBalance calls after the swap
    newToTokenBalance,
    newFromTokenBalance,
    mainPrinted    \* the report lines printed

mainVars == <<mainScript, mainPc, exitCode, fromDecimals, balance, amountText,
              inputAmountInSmallestUnit, quoteRequests, mainQuotes, selection,
              selectedIndex, confirm, executed, buildRequests, submissions,
              mainTxid, balanceReads, newToTokenBalance, newFromTokenBalance,
              mainPrinted>>

\* the variables of the smaller functions and of main
extraVars == <<formatVars, keyVars, ataVars, mainVars>>

\* everything outside executeSwap
auxVars == <<lookupVars, cacheVars, quoteVars, extraVars>>

vars == <<swapVars, auxVars>>

execVars == <<txid, returned, result, outcome, escaped, printed>>
sendVars == <<builds, swapResponse, rawSends, legacySends, versioned, legacyEntered, submitted,
              submittedBy, recovered, lastMsg>>
confVars == <<settleDelays, confirmCalls, directErr>>
pollVars == <<polling, retries, delay, queries, sleeps, lookups, status, errSeen,
              inconclusive, threw, found>>

SwapInit ==
    /\ script \in Scripts
    /\ pc = "post"
    /\ txid = Null
    /\ returned = FALSE
    /\ result = Null
    /\ outcome = "none"
    /\ escaped = FALSE
    /\ printed = {}
    /\ builds = 0
    /\ swapResponse = "none"
    /\ rawSends = 0
    /\ legacySends = 0
    /\ versioned = "untried"
    /\ legacyEntered = FALSE
    /\ submitted = Null
    /\ submittedBy = "none"
    /\ recovered = FALSE
    /\ lastMsg = PlainMsg
    /\ settleDelays = 0
    /\ confirmCalls = 0
    /\ directErr = FALSE
    /\ polling = FALSE
    /\ retries = 0
    /\ delay = [num |-> InitialDelayMs, den |-> 1]
    /\ queries = 0
    /\ sleeps = <<>>
    /\ lookups = 0
    /\ status = "none"
    /\ errSeen = FALSE
    /\ inconclusive = 0
    /\ threw = 0
    /\ found = "none"

\* nothing outside executeSwap has run
LookupIdle ==
    /\ lkScript = GT
    /\ tokenList = <<>>
    /\ symbol = SOL
    /\ lkPc = "idle"
    /\ lkResult = Undefined

CacheIdle ==
    /\ files = [f \in CacheFiles |-> Absent]
    /\ written = [f \in CacheFiles |-> <<>>]
    /\ remote = <<>>
    /\ remoteLater = <<>>
    /\ lastCall = NoCall

QuoteIdle ==
    /\ qPc = "idle"
    /\ qIndex = 1
    /\ fromToken = Undefined
    /\ requests = <<>>
    /\ inFlight = {}
    /\ quotes = <<>>

FormatIdle ==
    /\ fmtPc = "idle"
    /\ amount = 0
    /\ decimals = 0
    /\ display = <<>>

KeyIdle ==
    /\ keyScript = GT
    /\ privateKeyEnv = <<>>
    /\ keyPc = "idle"
    /\ keyRoute = "none"
    /\ keyFileReads = 0
    /\ keyFailed = FALSE
    /\ keyExit = -1

AtaIdle ==
    /\ accounts = {}
    /\ ataSends = [a \in AtaAddresses |-> 0]
    /\ succeeded = {}
    /\ returnedAta = [a \in AtaAddresses |-> {}]
    /\ lastAta = NoAtaCall
    /\ ataCalls = 0

\* main before it is given a script: everything unassigned
MainBlank ==
    /\ exitCode = -1
    /\ fromDecimals = 0
    /\ balance = Unset
    /\ amountText = <<>>
    /\ inputAmountInSmallestUnit = Unset
    /\ quoteRequests = <<>>
    /\ mainQuotes = <<>>
    /\ selection = <<>>
    /\ selectedIndex = Unset
    /\ confirm = ""
    /\ executed = <<>>
    /\ buildRequests = 0
    /\ submissions = 0
    /\ mainTxid = "unset"
    /\ balanceReads = 0
    /\ newToTokenBalance = Unset
    /\ newFromTokenBalance = Unset
    /\ mainPrinted = {}

MainIdle ==
    /\ mainScript = GT
    /\ mainPc = "idle"
    /\ MainBlank

ExtraIdle == FormatIdle /\ KeyIdle /\ AtaIdle /\ MainIdle

AuxIdle == LookupIdle /\ CacheIdle /\ QuoteIdle /\ ExtraIdle

Init == SwapInit /\ AuxIdle

\* the state before executeSwap is called, in get-tokens.js
SwapIdle == SwapInit /\ script = GT

\* ------------------------------------------------------------ control flow
\* return val from executeSwap
Return(val, oc) ==
    /\ returned' = TRUE
    /\ result' = val
    /\ outcome' = oc
    /\ escaped' = escaped
    /\ pc' = "returned"

\* a catch block that rethrows
OuterCatchRethrow(msg) ==
    /\ printed' = printed \cup Mentions(msg)
    /\ escaped' = TRUE
    /\ pc' = "done"
    /\ UNCHANGED <<returned, result, outcome>>

\* the catch (err) block around the whole body of executeSwap: prints
\* err.message and returns null
OuterCatch(msg) ==
    /\ printed' = printed \cup Mentions(msg)
    /\ Return(Null, "Failed")

\* ------------------------------------------- executeSwap: build and submit
\* axios.post(`${JUPITER_API_BASE}/swap`, swapRequest) and the payload check
\* (get-tokens.js and part_000)
PostSwap ==
    /\ pc = "post"
    /\ script \in {GT, P0}
    /\ builds' = builds + 1
    /\ \E resp \in SwapResponses :
          /\ swapResponse' = resp
          /\ IF resp # "threw" /\ HasSwapTransaction(resp)
             THEN /\ pc' = "deserialize"
                  /\ UNCHANGED <<returned, result, outcome, escaped, printed>>
             ELSE \* the request threw, or throw new Error("Failed to get swap transaction")
                  OuterCatch(PlainMsg)
    /\ UNCHANGED <<script, txid, rawSends, legacySends, versioned, legacyEntered,
                   submitted, submittedBy, recovered, lastMsg>>
    /\ UNCHANGED <<confVars, pollVars>>
    /\ UNCHANGED auxVars

\* VersionedTransaction.deserialize(swapTransactionBuf), first statement of
\* the inner try
VersionedDeserialize ==
    /\ pc = "deserialize"
    /\ \/ /\ versioned' = "ok"
          /\ pc' = "sign"
          /\ UNCHANGED legacyEntered
       \/ \* it throws: catch (err), "Falling back to legacy transaction format"
          /\ versioned' = "failed"
          /\ pc' = "legacyFrom"
          /\ UNCHANGED legacyEntered
    /\ UNCHANGED <<script, execVars, builds, swapResponse, rawSends, legacySends, submitted, submittedBy,
                   recovered, lastMsg>>
    /\ UNCHANGED <<confVars, pollVars>>
    /\ UNCHANGED auxVars

\* versionedTransaction.sign([wallet]), still inside the inner try
VersionedSign ==
    /\ pc = "sign"
    /\ \/ pc' = "sendRaw"
       \/ \* it throws: the same catch (err) falls back to the legacy format
          pc' = "legacyFrom"
    /\ UNCHANGED <<script, execVars, sendVars, confVars, pollVars>>
    /\ UNCHANGED auxVars

\* get-tokens.js: txid = await connection.sendRawTransaction(...), the last
\* statement of the inner try
SendRawTransaction ==
    /\ pc = "sendRaw"
    /\ script = GT
    /\ rawSends' = rawSends + 1
    /\ \/ \E sig \in Sigs :
            /\ txid' = sig
            /\ submitted' = sig
            /\ submittedBy' = "raw"
            /\ pc' = "settle"
       \/ \* it throws: the same catch (err) falls back to the legacy format
          /\ pc' = "legacyFrom"
          /\ UNCHANGED <<txid, submitted, submittedBy>>
    /\ UNCHANGED <<script, returned, result, outcome, escaped, printed, builds, swapResponse,
                   legacySends, versioned, legacyEntered, recovered, lastMsg>>
    /\ UNCHANGED <<confVars, pollVars>>
    /\ UNCHANGED auxVars

\* Transaction.from(swapTransactionBuf) in the catch block of the inner try
TransactionFrom ==
    /\ pc = "legacyFrom"
    /\ script \in {GT, P0}
    /\ legacyEntered' = TRUE
    /\ \/ /\ pc' = "legacySend"
          /\ UNCHANGED <<returned, result, outcome, escaped, printed>>
       \/ \* it throws, out of the catch block into the outer catch
          OuterCatch(PlainMsg)
    /\ UNCHANGED <<script, txid, builds, swapResponse, rawSends, legacySends, versioned,
                   submitted,
                   submittedBy, recovered, lastMsg>>
    /\ UNCHANGED <<confVars, pollVars>>
    /\ UNCHANGED auxVars

\* get-tokens.js: sendAndConfirmTransaction in its own try, with the
\* recovery of the signature from a timeout message
LegacySendAndConfirm ==
    /\ pc = "legacySend"
    /\ script = GT
    /\ legacySends' = legacySends + 1
    /\ \/ \E sig \in Sigs :
            /\ txid' = sig
            /\ submitted' = sig
            /\ submittedBy' = "legacy"
            /\ IF LegacySuccess = "return"
               THEN Return(sig, "Confirmed")   \* return txid
               ELSE /\ pc' = "settle"
                    /\ UNCHANGED <<returned, result, outcome, escaped>>
            /\ UNCHANGED <<printed, recovered, lastMsg>>
       \/ \E msg \in Msgs :
            /\ lastMsg' = msg
            /\ UNCHANGED <<submitted, submittedBy>>
            /\ \/ /\ LegacyFailure(msg) = "recover"
                  /\ txid' = MatchSignature(msg)
                  /\ recovered' = TRUE
                  /\ printed' = printed \cup {MatchSignature(msg)}
                  /\ pc' = "settle"
                  /\ UNCHANGED <<returned, result, outcome, escaped>>
               \/ /\ LegacyFailure(msg) # "recover"
                  /\ OuterCatch(msg)
                  /\ UNCHANGED <<txid, recovered>>
    /\ UNCHANGED <<script, builds, swapResponse, rawSends, versioned, legacyEntered>>
    /\ UNCHANGED <<confVars, pollVars>>
    /\ UNCHANGED auxVars

\* ------------------------------------- executeSwap: the confirmation phase
\* get-tokens.js: the three console.log lines that print txid, then
\* await sleep(1000)
SettleDelay ==
    /\ pc = "settle"
    /\ printed' = printed \cup {txid}
    /\ settleDelays' = settleDelays + 1
    /\ pc' = "blockHeight"
    /\ UNCHANGED <<script, txid, returned, result, outcome, escaped, sendVars,
                   confirmCalls, directErr, pollVars>>
    /\ UNCHANGED auxVars

\* entry of checkTransactionStatus from catch (confirmError):
\* let retries = 0; let delay = initialDelayMs
StartPolling ==
    /\ polling' = TRUE
    /\ retries' = 0
    /\ delay' = [num |-> InitialDelayMs, den |-> 1]
    /\ pc' = "poll"
    /\ UNCHANGED <<queries, sleeps, lookups, status, errSeen, inconclusive, threw, found>>

\* lastValidBlockHeight: await connection.getBlockHeight()
GetBlockHeight ==
    /\ pc = "blockHeight"
    /\ \/ /\ pc' = "blockhash"
          /\ UNCHANGED pollVars
       \/ StartPolling
    /\ UNCHANGED <<script, execVars, sendVars, confVars>>
    /\ UNCHANGED auxVars

\* blockhash: (await connection.getLatestBlockhash()).blockhash
GetLatestBlockhash ==
    /\ pc = "blockhash"
    /\ \/ /\ pc' = "confirm"
          /\ UNCHANGED pollVars
       \/ StartPolling
    /\ UNCHANGED <<script, execVars, sendVars, confVars>>
    /\ UNCHANGED auxVars

\* a direct confirmation whose failure is fatal, as in part_000
ConfirmTransactionFatal ==
    /\ pc = "confirm"
    /\ script = GT
    /\ confirmCalls' = confirmCalls + 1
    /\ \/ \E e \in BOOLEAN :
            /\ directErr' = e
            /\ Return(txid, "Confirmed")
            /\ UNCHANGED printed
       \/ /\ OuterCatch(PlainMsg)
          /\ UNCHANGED directErr
    /\ UNCHANGED <<script, txid, sendVars, settleDelays, pollVars>>
    /\ UNCHANGED auxVars

\* get-tokens.js: await connection.confirmTransaction({...}, "confirmed");
\* a resolved call returns txid whatever value.err the result carries
ConfirmTransaction ==
    /\ pc = "confirm"
    /\ script = GT
    /\ confirmCalls' = confirmCalls + 1
    /\ \/ \E e \in BOOLEAN :
            /\ directErr' = e
            /\ Return(txid, "Confirmed")
            /\ UNCHANGED pollVars
       \/ \* it throws: "Standard confirmation timed out, checking ... manually"
          /\ StartPolling
          /\ UNCHANGED <<returned, result, outcome, escaped, directErr>>
    /\ UNCHANGED <<script, txid, printed, sendVars, settleDelays>>
    /\ UNCHANGED auxVars

\* executeSwap's use of the checkTransactionStatus result
ReturnStatus(st) == Return(ResultForStatus(st, txid), OutcomeForStatus(st))

\* one iteration of the while (retries < maxRetries) loop of
\* checkTransactionStatus: a status query, then either a return or
\* sleep(delay); delay *= 1.5; retries++
PollIteration ==
    /\ pc = "poll"
    /\ WhileCondition(retries)
    /\ queries' = queries + 1
    /\ \/ \E resp \in StatusResponses :
            /\ errSeen' = (~resp.isNull /\ resp.hasValue /\ resp.value.err # "none")
            /\ UNCHANGED threw
            /\ IF StatusVerdict(resp) = "retry"
               THEN /\ sleeps' = Append(sleeps, delay)
                    /\ delay' = NextDelay(delay)
                    /\ retries' = retries + 1
                    /\ inconclusive' = inconclusive + 1
                    /\ UNCHANGED <<pc, status, returned, result, outcome, escaped>>
               ELSE /\ status' = StatusVerdict(resp)
                    /\ ReturnStatus(StatusVerdict(resp))
                    /\ UNCHANGED <<sleeps, delay, retries, inconclusive>>
       \/ \* getSignatureStatus throws: catch (error), same wait
          /\ sleeps' = Append(sleeps, delay)
          /\ delay' = NextDelay(delay)
          /\ retries' = RetriesAfterThrow(retries)
          /\ threw' = threw + 1
          /\ UNCHANGED <<pc, status, errSeen, inconclusive, returned, result, outcome, escaped>>
    /\ UNCHANGED <<script, txid, printed, sendVars, confVars, polling, lookups, found>>
    /\ UNCHANGED auxVars

\* after the loop: connection.getParsedTransaction(signature, ...), the
\* final check, and the return of checkTransactionStatus
HistoryLookup ==
    /\ pc = "poll"
    /\ ~WhileCondition(retries)
    /\ lookups' = lookups + 1
    /\ \/ \E rec \in BOOLEAN :
            /\ found' = IF rec THEN "record" ELSE "nothing"
            /\ status' = HistoryVerdict(rec)
            /\ ReturnStatus(HistoryVerdict(rec))
       \/ \* it throws: "Final transaction check failed", then confirmed: null
          /\ found' = "threw"
          /\ status' = "null"
          /\ ReturnStatus("null")
    /\ UNCHANGED <<script, txid, printed, sendVars, confVars, polling, retries, delay,
                   queries, sleeps, errSeen, inconclusive, threw>>
    /\ UNCHANGED auxVars

\* ------------------------------------------ executeSwap of part_000
\* part_000: connection.sendRawTransaction after the inner try / catch
SendRawTransactionP0 ==
    /\ pc = "sendRaw"
    /\ script = P0
    /\ rawSends' = rawSends + 1
    /\ \/ \E sig \in Sigs :
            /\ txid' = sig
            /\ submitted' = sig
            /\ submittedBy' = "raw"
            /\ pc' = "confirm"
            /\ UNCHANGED <<returned, result, outcome, escaped, printed>>
       \/ \E msg \in Msgs :
            /\ OuterCatch(msg)
            /\ UNCHANGED <<txid, submitted, submittedBy>>
    /\ UNCHANGED <<script, builds, swapResponse, legacySends, versioned, legacyEntered, recovered, lastMsg>>
    /\ UNCHANGED <<confVars, pollVars>>
    /\ UNCHANGED auxVars

\* part_000: await connection.confirmTransaction(txid, "confirmed"); return txid
ConfirmTransactionP0 ==
    /\ pc = "confirm"
    /\ script = P0
    /\ confirmCalls' = confirmCalls + 1
    /\ \/ \E e \in BOOLEAN :
            /\ directErr' = e
            /\ Return(txid, "Confirmed")
            /\ UNCHANGED printed
       \/ \E msg \in Msgs :
            /\ OuterCatch(msg)
            /\ UNCHANGED directErr
    /\ UNCHANGED <<script, txid, sendVars, settleDelays, pollVars>>
    /\ UNCHANGED auxVars

\* part_000: sendAndConfirmTransaction in the catch block; return txid
LegacySendAndConfirmP0 ==
    /\ pc = "legacySend"
    /\ script = P0
    /\ legacySends' = legacySends + 1
    /\ \/ \E sig \in Sigs :
            /\ txid' = sig
            /\ submitted' = sig
            /\ submittedBy' = "legacy"
            /\ Return(sig, "Confirmed")
            /\ UNCHANGED <<printed, lastMsg>>
       \/ \E msg \in Msgs :
            /\ lastMsg' = msg
            /\ OuterCatch(msg)
            /\ UNCHANGED <<txid, submitted, submittedBy>>
    /\ UNCHANGED <<script, builds, swapResponse, rawSends, versioned, legacyEntered, recovered>>
    /\ UNCHANGED <<confVars, pollVars>>
    /\ UNCHANGED auxVars

\* ------------- executeSwap of interactive-swap.js / interactive-swap-devnet.js
\* axios.post(.../swap, {route, ...}) and the payload check
PostSwapRoute ==
    /\ pc = "post"
    /\ script = IS
    /\ builds' = builds + 1
    /\ \E resp \in SwapResponses :
          /\ swapResponse' = resp
          /\ IF resp # "threw" /\ HasSwapTransaction(resp)
             THEN /\ pc' = "legacyFrom"
                  /\ UNCHANGED <<returned, result, outcome, escaped, printed>>
             ELSE OuterCatch(PlainMsg)
    /\ UNCHANGED <<script, txid, rawSends, legacySends, versioned, legacyEntered,
                   submitted, submittedBy, recovered, lastMsg>>
    /\ UNCHANGED <<confVars, pollVars>>
    /\ UNCHANGED auxVars

\* Transaction.from(swapTransactionBuf)
TransactionFromRoute ==
    /\ pc = "legacyFrom"
    /\ script = IS
    /\ legacyEntered' = TRUE
    /\ \/ /\ pc' = "legacySend"
          /\ UNCHANGED <<returned, result, outcome, escaped, printed>>
       \/ OuterCatch(PlainMsg)
    /\ UNCHANGED <<script, txid, builds, swapResponse, rawSends, legacySends, versioned,
                   submitted,
                   submittedBy, recovered, lastMsg>>
    /\ UNCHANGED <<confVars, pollVars>>
    /\ UNCHANGED auxVars

\* sendAndConfirmTransaction(connection, transaction, [wallet], ...); return txid
SendAndConfirmRoute ==
    /\ pc = "legacySend"
    /\ script = IS
    /\ legacySends' = legacySends + 1
    /\ \/ \E sig \in Sigs :
            /\ txid' = sig
            /\ submitted' = sig
            /\ submittedBy' = "legacy"
            /\ Return(sig, "Confirmed")
            /\ UNCHANGED <<printed, lastMsg>>
       \/ \E msg \in Msgs :
            /\ lastMsg' = msg
            /\ OuterCatch(msg)
            /\ UNCHANGED <<txid, submitted, submittedBy>>
    /\ UNCHANGED <<script, builds, swapResponse, rawSends, versioned, legacyEntered, recovered>>
    /\ UNCHANGED <<confVars, pollVars>>
    /\ UNCHANGED auxVars

\* ------------------------------------------------------------------- main
\* main after executeSwap returned: if (txid) the signature is printed
\* ("Transaction ID: ..."), else "Swap failed!"
MainReport ==
    /\ pc = "returned"
    /\ printed' = IF returned /\ result # Null THEN printed \cup {result} ELSE printed
    /\ pc' = "done"
    /\ UNCHANGED <<script, txid, returned, result, outcome, escaped, sendVars,
                   confVars, pollVars>>
    /\ UNCHANGED auxVars

Next ==
    \/ PostSwap
    \/ VersionedDeserialize
    \/ VersionedSign
    \/ SendRawTransaction
    \/ TransactionFrom
    \/ LegacySendAndConfirm
    \/ SettleDelay
    \/ GetBlockHeight
    \/ GetLatestBlockhash
    \/ ConfirmTransaction
    \/ PollIteration
    \/ HistoryLookup
    \/ SendRawTransactionP0
    \/ ConfirmTransactionP0
    \/ LegacySendAndConfirmP0
    \/ PostSwapRoute
    \/ TransactionFromRoute
    \/ SendAndConfirmRoute
    \/ MainReport

Spec == Init /\ [][Next]_vars

\* every awaited call and every sleep returns: a run that can take a step
\* eventually takes one
FairSpec == Spec /\ WF_vars(Next)

\* --------------------------------------------------------- token lookup
\* one call of findTokenBySymbol, on any list and symbol
LookupInit ==
    /\ SwapIdle
    /\ CacheIdle
    /\ QuoteIdle
    /\ ExtraIdle
    /\ lkScript \in Scripts \cup {ISD}
    /\ tokenList \in TokenLists
    /\ symbol \in QuerySymbols
    /\ lkPc = "call"
    /\ lkResult = Undefined

FindTokenBySymbolCall ==
    /\ lkPc = "call"
    /\ lkResult' = FindTokenBySymbol(lkScript, tokenList, symbol)
    /\ lkPc' = "done"
    /\ UNCHANGED <<lkScript, tokenList, symbol>>
    /\ UNCHANGED <<swapVars, cacheVars, quoteVars, extraVars>>

LookupNext == FindTokenBySymbolCall

LookupSpec == LookupInit /\ [][LookupNext]_vars

\* ----------------------------------------------------------- token cache
\* runs of the scripts on one machine, sharing its cache files
CacheInit ==
    /\ SwapIdle
    /\ LookupIdle
    /\ QuoteIdle
    /\ ExtraIdle
    /\ files = [f \in CacheFiles |-> Absent]
    /\ written = [f \in CacheFiles |-> <<>>]
    /\ remote \in ServedLists
    /\ remoteLater \in ServedLists
    /\ lastCall = NoCall

\* getTokenList of script s running with NETWORK = net, cache file f,
\* filtering the fetched list or not
GetTokenListOn(s, net, f, filter) ==
    IF files[f] # Absent
    THEN /\ lastCall' = [by |-> s, net |-> net, touched |-> {f}, cached |-> TRUE,
                         fetched |-> FALSE, wrote |-> FALSE, exited |-> FALSE,
                         returned |-> Parse(files[f])]
         /\ UNCHANGED <<files, written>>
    ELSE \/ LET tokens == remote
                filteredTokens == IF filter THEN DevnetFilter(tokens) ELSE tokens
            IN  /\ files' = [files EXCEPT ![f] = Stringify(filteredTokens)]
                /\ written' = [written EXCEPT ![f] = filteredTokens]
                /\ lastCall' = [by |-> s, net |-> net, touched |-> {f}, cached |-> FALSE,
                                fetched |-> TRUE, wrote |-> TRUE, exited |-> FALSE,
                                returned |-> filteredTokens]
         \/ /\ lastCall' = [by |-> s, net |-> net, touched |-> {f}, cached |-> FALSE,
                            fetched |-> TRUE, wrote |-> FALSE, exited |-> TRUE,
                            returned |-> <<>>]
            /\ UNCHANGED <<files, written>>

\* get-tokens.js and part_000
GetTokenList ==
    /\ \E s \in {GT, P0}, net \in Networks :
          GetTokenListOn(s, NetworkOf(net), CacheFileFor(net), net = Devnet)
    /\ UNCHANGED <<remote, remoteLater>>
    /\ UNCHANGED <<swapVars, lookupVars, quoteVars, extraVars>>

\* interactive-swap.js
GetTokenListMainnet ==
    /\ GetTokenListOn(IS, Mainnet, MainnetFile, FALSE)
    /\ UNCHANGED <<remote, remoteLater>>
    /\ UNCHANGED <<swapVars, lookupVars, quoteVars, extraVars>>

\* interactive-swap-devnet.js
GetTokenListDevnet ==
    /\ GetTokenListOn(ISD, Devnet, DevnetFile, TRUE)
    /\ UNCHANGED <<remote, remoteLater>>
    /\ UNCHANGED <<swapVars, lookupVars, quoteVars, extraVars>>

\* the token scanner of get-tokens.js: fetches and caches on every run
ScannerCacheWrite ==
    /\ \/ /\ files' = [files EXCEPT ![MainnetFile] = Stringify(remote)]
          /\ written' = [written EXCEPT ![MainnetFile] = remote]
          /\ lastCall' = [by |-> "scanner", net |-> Mainnet, touched |-> {MainnetFile},
                          cached |-> files[MainnetFile] # Absent, fetched |-> TRUE,
                          wrote |-> TRUE, exited |-> FALSE, returned |-> remote]
       \/ /\ lastCall' = [by |-> "scanner", net |-> Mainnet, touched |-> {},
                          cached |-> files[MainnetFile] # Absent, fetched |-> TRUE,
                          wrote |-> FALSE, exited |-> TRUE, returned |-> <<>>]
          /\ UNCHANGED <<files, written>>
    /\ UNCHANGED <<remote, remoteLater>>
    /\ UNCHANGED <<swapVars, lookupVars, quoteVars, extraVars>>

\* the token-list URL starts serving another list
ServerUpdate ==
    /\ remote # remoteLater
    /\ remote' = remoteLater
    /\ UNCHANGED <<files, written, remoteLater, lastCall>>
    /\ UNCHANGED <<swapVars, lookupVars, quoteVars, extraVars>>

CacheNext ==
    \/ GetTokenList
    \/ GetTokenListMainnet
    \/ GetTokenListDevnet
    \/ ScannerCacheWrite
    \/ ServerUpdate

CacheSpec == CacheInit /\ [][CacheNext]_vars

\* ------------------------------------------------- quote collection (main)
\* main of get-tokens.js from the quote loop to the list of swaps
QuoteInit ==
    /\ SwapIdle
    /\ CacheIdle
    /\ ExtraIdle
    /\ lkScript = GT /\ symbol = SOL /\ lkPc = "idle" /\ lkResult = Undefined
    /\ tokenList \in QuoteTokenLists
    /\ fromToken \in {FindTokenBySymbol(GT, tokenList, fromSymbol) :
                         fromSymbol \in QuerySymbols} \ {Undefined}
    /\ qPc = "loop"
    /\ qIndex = 1
    /\ requests = <<>>
    /\ inFlight = {}
    /\ quotes = <<>>

\* the position after turn i of the loop: the next turn, or past the loop
NextTurn(i) == IF i + 1 > Len(POPULAR_TOKENS) THEN "custom" ELSE "loop"

\* getSwapQuote up to its axios.get: the request leaves
IssueRequest(index, toToken) ==
    /\ requests' = Append(requests, [index |-> index, token |-> toToken,
                                      answer |-> "pending"])
    /\ inFlight' = inFlight \cup {Len(requests) + 1}
    /\ qPc' = AfterRequest(qPc)

\* one turn of for (const toSymbol of POPULAR_TOKENS) up to its await
QuoteLoopStep ==
    /\ qPc = "loop"
    /\ qIndex <= Len(POPULAR_TOKENS)
    /\ LET toSymbol == POPULAR_TOKENS[qIndex]
           toToken == FindTokenBySymbol(GT, tokenList, toSymbol)
       IN  IF \/ ToUpperCase(toSymbol) = ToUpperCase(fromToken.symbol)
              \/ toToken = Undefined
           THEN /\ qIndex' = qIndex + 1
                /\ qPc' = NextTurn(qIndex)
                /\ UNCHANGED <<requests, inFlight>>
           ELSE /\ IssueRequest(qIndex, toToken)
                /\ UNCHANGED qIndex
    /\ UNCHANGED <<fromToken, quotes>>
    /\ UNCHANGED <<swapVars, lookupVars, cacheVars, extraVars>>

\* the custom token question after the loop
AskCustomToken ==
    /\ qPc = "custom"
    /\ \E customSearch \in QuerySymbols \cup {<<>>} :
          LET customToken == FindTokenBySymbol(GT, tokenList, customSearch)
          IN  IF /\ customSearch # <<>>
                 /\ customToken # Undefined
                 /\ customToken.address # fromToken.address
              THEN IssueRequest(0, customToken)
              ELSE /\ qPc' = "display"
                   /\ UNCHANGED <<requests, inFlight>>
    /\ UNCHANGED <<qIndex, fromToken, quotes>>
    /\ UNCHANGED <<swapVars, lookupVars, cacheVars, extraVars>>

\* the awaited getSwapQuote returns and main handles what it returned
GetSwapQuoteReturns ==
    /\ qPc \in {"awaitQuote", "awaitCustom"}
    /\ \E r \in inFlight, answer \in QuoteAnswers :
          /\ requests' = [requests EXCEPT ![r].answer = answer]
          /\ inFlight' = inFlight \ {r}
          /\ quotes' = IF IsQuote(answer)
                       THEN Append(quotes, [token |-> requests[r].token,
                                            quoteResponse |-> r])
                       ELSE quotes
    /\ IF qPc = "awaitQuote"
       THEN qPc' = NextTurn(qIndex) /\ qIndex' = qIndex + 1
       ELSE qPc' = "display" /\ UNCHANGED qIndex
    /\ UNCHANGED fromToken
    /\ UNCHANGED <<swapVars, lookupVars, cacheVars, extraVars>>

\* if (quotes.length === 0) process.exit(1), else the swaps are listed
DisplayQuotes ==
    /\ qPc = "display"
    /\ qPc' = IF Len(quotes) = 0 THEN "exit" ELSE "select"
    /\ UNCHANGED <<qIndex, fromToken, requests, inFlight, quotes>>
    /\ UNCHANGED <<swapVars, lookupVars, cacheVars, extraVars>>

QuoteNext ==
    \/ QuoteLoopStep
    \/ AskCustomToken
    \/ GetSwapQuoteReturns
    \/ DisplayQuotes

QuoteSpec == QuoteInit /\ [][QuoteNext]_vars

\* --------------------------------------------------------- number display
\* one call of formatTokenAmount
outsideFormat == <<swapVars, lookupVars, cacheVars, quoteVars, keyVars, ataVars, mainVars>>

FormatInit ==
    /\ SwapIdle /\ LookupIdle /\ CacheIdle /\ QuoteIdle
    /\ KeyIdle /\ AtaIdle /\ MainIdle
    /\ fmtPc = "call"
    /\ amount \in Amounts
    /\ decimals \in DecimalsValues
    /\ display = <<>>

FormatTokenAmountCall ==
    /\ fmtPc = "call"
    /\ display' = FormatTokenAmount(amount, decimals)
    /\ fmtPc' = "done"
    /\ UNCHANGED <<amount, decimals>>
    /\ UNCHANGED outsideFormat

FormatNext == FormatTokenAmountCall

FormatSpec == FormatInit /\ [][FormatNext]_vars

\* --------------------------------------------------------------- wallet key
\* one call of loadWalletKey
outsideKey == <<swapVars, lookupVars, cacheVars, quoteVars, formatVars, ataVars, mainVars>>

KeyInit ==
    /\ SwapIdle /\ LookupIdle /\ CacheIdle /\ QuoteIdle
    /\ FormatIdle /\ AtaIdle /\ MainIdle
    /\ keyScript \in Scripts \cup {ISD}
    /\ privateKeyEnv \in EnvValues
    /\ keyPc = "call"
    /\ keyRoute = "none"
    /\ keyFileReads = 0
    /\ keyFailed = FALSE
    /\ keyExit = -1

\* the end of loadWalletKey: the key pair is returned, or the catch block
\* prints the error and calls process.exit(1)
KeyOutcome(ok) ==
    /\ keyFailed' = ~ok
    /\ keyPc' = IF ok THEN "returned" ELSE "exited"
    /\ keyExit' = IF ok THEN -1 ELSE 1

\* loadWalletKey of get-tokens.js, part_000 and interactive-swap-devnet.js
LoadWalletKey ==
    /\ keyPc = "call"
    /\ keyScript \in {GT, P0, ISD}
    /\ IF privateKeyEnv # <<>>
       THEN /\ keyRoute' = KeyRoute(privateKeyEnv)
            /\ UNCHANGED keyFileReads
       ELSE /\ keyRoute' = "file"
            /\ keyFileReads' = keyFileReads + 1
    /\ \E ok \in BOOLEAN : KeyOutcome(ok)
    /\ UNCHANGED <<keyScript, privateKeyEnv>>
    /\ UNCHANGED outsideKey

\* loadWalletKey of interactive-swap.js
LoadWalletKeyFromFile ==
    /\ keyPc = "call"
    /\ keyScript = IS
    /\ keyRoute' = "file"
    /\ keyFileReads' = keyFileReads + 1
    /\ \E ok \in BOOLEAN : KeyOutcome(ok)
    /\ UNCHANGED <<keyScript, privateKeyEnv>>
    /\ UNCHANGED outsideKey

KeyNext ==
    \/ LoadWalletKey
    \/ LoadWalletKeyFromFile

KeySpec == KeyInit /\ [][KeyNext]_vars

\* ----------------------------------------------------------- token accounts
\* calls of createTokenAccountIfNeeded (interactive-swap-devnet.js) against
\* one ledger, on which some accounts may exist beforehand
outsideAta == <<swapVars, lookupVars, cacheVars, quoteVars, formatVars, keyVars, mainVars>>

AtaInit ==
    /\ SwapIdle /\ LookupIdle /\ CacheIdle /\ QuoteIdle
    /\ FormatIdle /\ KeyIdle /\ MainIdle
    /\ accounts \in SUBSET AtaAddresses
    /\ ataSends = [a \in AtaAddresses |-> 0]
    /\ succeeded = {}
    /\ returnedAta = [a \in AtaAddresses |-> {}]
    /\ lastAta = NoAtaCall
    /\ ataCalls = 0

\* the call returns associatedToken
AtaReturns(owner, mint, existed, sent) ==
    LET associatedToken == FindAssociatedTokenAddress(owner, mint)
    IN  /\ succeeded' = succeeded \cup {associatedToken}
        /\ returnedAta' = [returnedAta EXCEPT ![<<owner, mint>>] = @ \cup {associatedToken}]
        /\ lastAta' = [owner |-> owner, mint |-> mint, existed |-> existed,
                       sent |-> sent, ended |-> "returned", address |-> associatedToken]

\* an awaited call throws and the exception leaves the function
AtaThrows(owner, mint, existed, sent) ==
    /\ lastAta' = [owner |-> owner, mint |-> mint, existed |-> existed,
                   sent |-> sent, ended |-> "threw", address |-> <<>>]
    /\ UNCHANGED <<succeeded, returnedAta>>

CreateTokenAccountIfNeeded ==
    /\ ataCalls < MaxAtaCalls
    /\ ataCalls' = ataCalls + 1
    /\ \E owner \in Owners, mint \in Mints :
          LET associatedToken == FindAssociatedTokenAddress(owner, mint)
              tokenAccount == associatedToken \in accounts
          IN  \/ \* connection.getAccountInfo throws
                 /\ AtaThrows(owner, mint, FALSE, FALSE)
                 /\ UNCHANGED <<accounts, ataSends>>
              \/ /\ ~NeedsCreation(tokenAccount)
                 /\ AtaReturns(owner, mint, tokenAccount, FALSE)
                 /\ UNCHANGED <<accounts, ataSends>>
              \/ /\ NeedsCreation(tokenAccount)
                 /\ ataSends' = [ataSends EXCEPT ![associatedToken] = @ + 1]
                 /\ \/ \* sendAndConfirmTransaction resolves: the account exists
                       /\ ~tokenAccount
                       /\ accounts' = accounts \cup {associatedToken}
                       /\ AtaReturns(owner, mint, tokenAccount, TRUE)
                    \/ \* it lands but the confirmation is not observed
                       /\ ~tokenAccount
                       /\ accounts' = accounts \cup {associatedToken}
                       /\ AtaThrows(owner, mint, tokenAccount, TRUE)
                    \/ \* it is rejected
                       /\ UNCHANGED accounts
                       /\ AtaThrows(owner, mint, tokenAccount, TRUE)
    /\ UNCHANGED outsideAta

AtaNext == CreateTokenAccountIfNeeded

AtaSpec == AtaInit /\ [][AtaNext]_vars


\* ---------------------------------------------------------------------
\* main: the dialogue from the wallet to the report
\* ---------------------------------------------------------------------

\* the values of fromToken.decimals: a token of whole units and one with a
\* fractional digit
FromDecimals == {0, 1}

outsideMain == <<swapVars, lookupVars, cacheVars, quoteVars, formatVars, keyVars, ataVars>>

MainInit ==
    /\ SwapIdle /\ LookupIdle /\ CacheIdle /\ QuoteIdle
    /\ FormatIdle /\ KeyIdle /\ AtaIdle
    /\ mainScript \in MainScripts
    /\ mainPc = "start"
    /\ MainBlank

\* process.exit(code), after the line printed before it
MainExit(code, line) ==
    /\ mainPc' = "exit"
    /\ exitCode' = code
    /\ mainPrinted' = mainPrinted \cup {line}

\* an exception reaches main's catch: it is printed, main returns and no
\* exit status is given
MainCaught ==
    /\ mainPc' = "done"
    /\ mainPrinted' = mainPrinted \cup {"Error:"}
    /\ UNCHANGED exitCode

\* const wallet = loadWalletKey(walletKeyPath)
MainLoadWalletKey ==
    /\ mainPc = "start"
    /\ \E loaded \in BOOLEAN :
          IF loaded
          THEN /\ mainPc' = "list"
               /\ UNCHANGED <<exitCode, mainPrinted>>
          ELSE MainExit(1, "Error loading wallet key:")
    /\ UNCHANGED <<mainScript, fromDecimals, balance, amountText,
                   inputAmountInSmallestUnit, quoteRequests, mainQuotes,
                   selection, selectedIndex, confirm, executed, buildRequests,
                   submissions, mainTxid, balanceReads, newToTokenBalance,
                   newFromTokenBalance>>
    /\ UNCHANGED outsideMain

\* const tokenList = await getTokenList(), and the airdrop question
MainGetTokenList ==
    /\ mainPc = "list"
    /\ \E fetched \in BOOLEAN, airdropThrows \in BOOLEAN :
          IF ~fetched
          THEN MainExit(1, "Error fetching token list:")
          ELSE IF airdropThrows /\ mainScript = ISD
               THEN MainCaught
               ELSE /\ mainPc' = "token"
                    /\ UNCHANGED <<exitCode, mainPrinted>>
    /\ UNCHANGED <<mainScript, fromDecimals, balance, amountText,
                   inputAmountInSmallestUnit, quoteRequests, mainQuotes,
                   selection, selectedIndex, confirm, executed, buildRequests,
                   submissions, mainTxid, balanceReads, newToTokenBalance,
                   newFromTokenBalance>>
    /\ UNCHANGED outsideMain

\* fromToken = findTokenBySymbol(tokenList, fromSymbol), then
\* balance = await getTokenBalance(...)
MainAskFromToken ==
    /\ mainPc = "token"
    /\ \E known \in BOOLEAN :
          IF ~known
          THEN /\ MainExit(1, "Token with symbol not found")
               /\ UNCHANGED <<fromDecimals, balance>>
          ELSE /\ \E d \in FromDecimals, b \in Balances \cup {NullNumber} :
                     /\ fromDecimals' = d
                     /\ balance' = b
               /\ mainPc' = "amount"
               /\ UNCHANGED <<exitCode, mainPrinted>>
    /\ UNCHANGED <<mainScript, amountText,
                   inputAmountInSmallestUnit, quoteRequests, mainQuotes,
                   selection, selectedIndex, confirm, executed, buildRequests,
                   submissions, mainTxid, balanceReads, newToTokenBalance,
                   newFromTokenBalance>>
    /\ UNCHANGED outsideMain

\* the amount is asked for, converted and checked
MainAskAmount ==
    /\ mainPc = "amount"
    /\ \E amountTyped \in AmountTexts :
          LET smallest == SmallestUnit(ParseFloat(amountTyped), fromDecimals)
          IN  /\ amountText' = amountTyped
              /\ inputAmountInSmallestUnit' = smallest
              /\ IF InvalidAmount(smallest)
                 THEN MainExit(1, "Invalid amount")
                 ELSE /\ mainPc' = IF ExceedsBalance(ParseFloat(amountTyped), balance)
                                   THEN "proceed" ELSE "quotes"
                      /\ UNCHANGED <<exitCode, mainPrinted>>
    /\ UNCHANGED <<mainScript, fromDecimals, balance, quoteRequests, mainQuotes,
                   selection, selectedIndex, confirm, executed, buildRequests,
                   submissions, mainTxid, balanceReads, newToTokenBalance,
                   newFromTokenBalance>>
    /\ UNCHANGED outsideMain

\* "Do you want to proceed anyway?" after the balance warning
MainAskProceed ==
    /\ mainPc = "proceed"
    /\ \E proceed \in Answers :
          IF ToLowerCase(proceed) # "y"
          THEN MainExit(0, "Warning: Amount exceeds your balance")
          ELSE /\ mainPc' = "quotes"
               /\ UNCHANGED <<exitCode, mainPrinted>>
    /\ UNCHANGED <<mainScript, fromDecimals, balance, amountText,
                   inputAmountInSmallestUnit, quoteRequests, mainQuotes,
                   selection, selectedIndex, confirm, executed, buildRequests,
                   submissions, mainTxid, balanceReads, newToTokenBalance,
                   newFromTokenBalance>>
    /\ UNCHANGED outsideMain

\* one getSwapQuote(fromToken.address, toToken.address,
\* inputAmountInSmallestUnit) of the loop or of the custom token, and the
\* push of its answer
MainGetSwapQuote ==
    /\ mainPc = "quotes"
    /\ Len(quoteRequests) < MaxMainQuotes
    /\ quoteRequests' = Append(quoteRequests, inputAmountInSmallestUnit)
    /\ \E answered \in BOOLEAN :
          mainQuotes' = IF answered
                        THEN Append(mainQuotes, Len(quoteRequests) + 1)
                        ELSE mainQuotes
    /\ UNCHANGED <<mainScript, mainPc, exitCode, fromDecimals, balance, amountText,
                   inputAmountInSmallestUnit,
                   selection, selectedIndex, confirm, executed, buildRequests,
                   submissions, mainTxid, balanceReads, newToTokenBalance,
                   newFromTokenBalance, mainPrinted>>
    /\ UNCHANGED outsideMain

\* the quotes are over: none means exit, else the list is printed; in
\* interactive-swap.js and interactive-swap-devnet.js printing calls
\* priceImpactPct.toFixed, which throws when the value is not a number
MainDisplayQuotes ==
    /\ mainPc = "quotes"
    /\ \E toFixedThrows \in BOOLEAN :
          IF mainQuotes = <<>>
          THEN MainExit(1, "No swap routes found")
          ELSE IF toFixedThrows /\ mainScript \in {IS, ISD}
               THEN MainCaught
               ELSE /\ mainPc' = "select"
                    /\ UNCHANGED <<exitCode, mainPrinted>>
    /\ UNCHANGED <<mainScript, fromDecimals, balance, amountText,
                   inputAmountInSmallestUnit, quoteRequests, mainQuotes,
                   selection, selectedIndex, confirm, executed, buildRequests,
                   submissions, mainTxid, balanceReads, newToTokenBalance,
                   newFromTokenBalance>>
    /\ UNCHANGED outsideMain

\* the selection is asked for, converted and checked
MainAskSelection ==
    /\ mainPc = "select"
    /\ \E selectionTyped \in SelectionTexts :
          LET index == SelectedIndex(selectionTyped)
          IN  /\ selection' = selectionTyped
              /\ selectedIndex' = index
              /\ IF InvalidSelection(index, Len(mainQuotes))
                 THEN MainExit(0, "Swap cancelled or invalid selection")
                 ELSE /\ mainPc' = "confirm"
                      /\ UNCHANGED <<exitCode, mainPrinted>>
    /\ UNCHANGED <<mainScript, fromDecimals, balance, amountText,
                   inputAmountInSmallestUnit, quoteRequests, mainQuotes,
                   confirm, executed, buildRequests,
                   submissions, mainTxid, balanceReads, newToTokenBalance,
                   newFromTokenBalance>>
    /\ UNCHANGED outsideMain

\* what a call of executeSwap can do: the build request is sent, the
\* transaction is submitted or not, and a signature or null comes back
ExecuteSwapOutcomes ==
    {[submitted |-> 0, txid |-> "null"],
     [submitted |-> 1, txid |-> "null"],
     [submitted |-> 1, txid |-> "sig"]}

\* "Execute this swap?" and, on yes, await executeSwap(..., selectedQuote)
MainAskConfirm ==
    /\ mainPc = "confirm"
    /\ \E answer \in Answers :
          /\ confirm' = answer
          /\ IF Confirmed(answer)
             THEN /\ executed' = Append(executed, mainQuotes[selectedIndex.val + 1])
                  /\ buildRequests' = buildRequests + 1
                  /\ \E o \in ExecuteSwapOutcomes :
                        /\ submissions' = submissions + o.submitted
                        /\ mainTxid' = o.txid
                  /\ mainPc' = "report"
                  /\ UNCHANGED mainPrinted
             ELSE /\ mainPc' = "done"
                  /\ mainPrinted' = mainPrinted \cup {"Swap cancelled"}
                  /\ UNCHANGED <<executed, buildRequests, submissions, mainTxid>>
    /\ UNCHANGED <<mainScript, exitCode, fromDecimals, balance, amountText,
                   inputAmountInSmallestUnit, quoteRequests, mainQuotes,
                   selection, selectedIndex, balanceReads, newToTokenBalance,
                   newFromTokenBalance>>
    /\ UNCHANGED outsideMain

\* the line get-tokens.js prints after the two balance reads
VerificationLine(newTo, newFrom, before) ==
    IF newTo.kind # "null" /\ newFrom.kind # "null"
    THEN IF VerifiedByBalance(newTo, newFrom, before)
         THEN "Swap successful! (verified by balance change)"
         ELSE "Transaction was submitted, but balance hasn't changed yet"
    ELSE "Transaction was submitted, but unable to verify the outcome"

\* if (txid) { ... } else { "Swap failed!" }
MainVerifyAndReport ==
    /\ mainPc = "report"
    /\ mainPc' = "done"
    /\ IF mainTxid = "null"
       THEN /\ mainPrinted' = mainPrinted \cup {"Swap failed!"}
            /\ UNCHANGED <<balanceReads, newToTokenBalance, newFromTokenBalance>>
       ELSE IF mainScript = GT
            THEN \E newTo \in Balances \cup {NullNumber},
                    newFrom \in Balances \cup {NullNumber} :
                    /\ balanceReads' = balanceReads + 2
                    /\ newToTokenBalance' = newTo
                    /\ newFromTokenBalance' = newFrom
                    /\ mainPrinted' = mainPrinted
                                      \cup {VerificationLine(newTo, newFrom, balance)}
            ELSE /\ mainPrinted' = mainPrinted \cup {"Swap successful!"}
                 /\ UNCHANGED <<balanceReads, newToTokenBalance, newFromTokenBalance>>
    /\ UNCHANGED <<mainScript, exitCode, fromDecimals, balance, amountText,
                   inputAmountInSmallestUnit, quoteRequests, mainQuotes,
                   selection, selectedIndex, confirm, executed, buildRequests,
                   submissions, mainTxid>>
    /\ UNCHANGED outsideMain

MainNext ==
    \/ MainLoadWalletKey
    \/ MainGetTokenList
    \/ MainAskFromToken
    \/ MainAskAmount
    \/ MainAskProceed
    \/ MainGetSwapQuote
    \/ MainDisplayQuotes
    \/ MainAskSelection
    \/ MainAskConfirm
    \/ MainVerifyAndReport

MainSpec == MainInit /\ [][MainNext]_vars

TypeOK ==
    /\ script \in Scripts
    /\ txid \in SeqsUpTo(Alnum, MaxTailLen) \cup Sigs
    /\ returned \in BOOLEAN
    /\ outcome \in {"none", "Confirmed", "Failed", "Unknown"}
    /\ status \in {"none", "true", "false", "null"}
    /\ retries \in 0..MaxRetries

\* ---------------------------------------------------------------- claims
Finished == pc \in {"returned", "done"}

\* C1: one call of executeSwap (get-tokens.js, part_000) ends, whatever the
\* quote service and the ledger do, with exactly one outcome: Confirmed or
\* Unknown with the signature returned, or Failed with null returned; no
\* exception leaves executeSwap, and no position short of the end is stuck.
C1_OneOutcomeNoEscape ==
    script \in {GT, P0} =>
        /\ ~escaped
        /\ Finished <=> returned
        /\ ~returned => outcome = "none"
        /\ returned =>
              /\ outcome \in {"Confirmed", "Failed", "Unknown"}
              /\ (outcome = "Failed") <=> (result = Null)
              /\ outcome # "Failed" => (result = txid /\ txid # Null)
        /\ pc # "done" => ENABLED Next

C1_Witness ==
    /\ script = GT
    /\ pc = "done"
    /\ outcome = "Unknown"
    /\ threw > 0
    /\ found = "threw"

\* C2: the first status response that carries an err field ends polling at
\* once with the Failed result: it is the last status query, no delay
\* follows it, no history lookup is made, and executeSwap returns null.
C2_ErrorStopsPolling ==
    errSeen =>
        /\ Finished
        /\ status = "false"
        /\ outcome = "Failed" /\ result = Null
        /\ queries = retries + 1
        /\ Len(sleeps) = queries - 1
        /\ lookups = 0

C2_Witness ==
    /\ errSeen
    /\ retries = 3
    /\ pc = "done"

\* C3: the k-th wait between status queries lasts d0 * 1.5^(k-1), whatever
\* the queries returned or threw, and at most n status queries are made,
\* all of them before the history lookup.
C3_DelaySequence ==
    /\ \A k \in 1..Len(sleeps) :
          sleeps[k] = [num |-> InitialDelayMs * Pow(3, k - 1), den |-> Pow(2, k - 1)]
    /\ queries <= MaxRetries
    /\ Len(sleeps) <= MaxRetries
    /\ lookups > 0 => (lookups = 1 /\ Finished /\ queries = MaxRetries)

C3_Witness ==
    /\ Len(sleeps) = MaxRetries
    /\ threw > 0
    /\ inconclusive > 0
    /\ lookups = 1

\* C4: when all n status queries were inconclusive and the final
\* getParsedTransaction lookup returns a record, checkTransactionStatus
\* gives confirmed: true and executeSwap returns the signature as Confirmed.
C4_HistoryHitConfirmed ==
    found = "record" =>
        /\ inconclusive + threw = MaxRetries
        /\ status = "true"
        /\ returned
        /\ outcome = "Confirmed"
        /\ result = txid /\ result # Null

C4_Witness ==
    /\ found = "record"
    /\ inconclusive = MaxRetries
    /\ pc = "done"

\* C5: when retries are exhausted and the final lookup returns nothing or
\* throws, checkTransactionStatus gives confirmed: null and executeSwap
\* returns the signature it was polling for, never null.
C5_UnknownKeepsSignature ==
    found \in {"nothing", "threw"} =>
        /\ status = "null"
        /\ returned
        /\ outcome = "Unknown"
        /\ result = txid /\ result # Null
        /\ submittedBy = "raw" => result = submitted

C5_Witness ==
    /\ found = "nothing"
    /\ submittedBy = "raw"
    /\ pc = "done"

\* C6: in get-tokens.js, when sendAndConfirmTransaction failed with a
\* timeout-like message containing "Check signature X" (X a signature,
\* followed by nothing or by a non-alphanumeric character), executeSwap goes
\* on to the confirmation phase with txid = X, and a Confirmed or Unknown
\* result of the run returns exactly X.
C6_RecoveredSignatureKept ==
    \A X \in SeqsUpTo(Alnum, MaxTailLen) \ {Null} :
        ( /\ script = GT
          /\ IsTimeoutLike(lastMsg)
          /\ lastMsg.hasPhrase
          /\ Len(X) <= Len(lastMsg.tail)
          /\ SubSeq(lastMsg.tail, 1, Len(X)) = X
          /\ (Len(lastMsg.tail) = Len(X) \/ lastMsg.tail[Len(X) + 1] \notin Alnum) )
        =>
        /\ recovered
        /\ txid = X
        /\ pc = "settle" \/ settleDelays = 1
        /\ returned => \/ outcome = "Failed" /\ status = "false"
                       \/ outcome \in {"Confirmed", "Unknown"} /\ result = X

C6_Witness ==
    /\ script = GT
    /\ recovered
    /\ lastMsg = TimeoutMsg(<<"A", "9">>)
    /\ outcome = "Unknown"
    /\ result = <<"A", "9">>
    /\ pc = "done"

\* C7 (as claimed): in every script, a signature that a submission call
\* returned has been shown to the user when the run ends: executeSwap
\* returned it or it was printed.
C7_SignatureSurfaced ==
    (pc = "done" /\ submitted # Null) =>
        (submitted \in printed \/ (returned /\ result = submitted))

\* C8 (as claimed): one call of executeSwap makes exactly one POST /swap
\* request and at most one submission (sendRawTransaction and
\* sendAndConfirmTransaction counted together).
C8_SingleSubmission ==
    /\ builds <= 1
    /\ pc # "post" => builds = 1
    /\ rawSends + legacySends <= 1

\* C9 (as claimed): the legacy path (Transaction.from,
\* sendAndConfirmTransaction) is entered only when versioned
\* deserialization failed, never after it succeeded.
C9_OnePayloadPath ==
    script \in {GT, P0} =>
        /\ legacyEntered => versioned = "failed"
        /\ legacySends > 0 => versioned = "failed"

\* C10: in get-tokens.js the confirmation phase (settle delay, then direct
\* confirmation) is entered exactly when step 2 ended with a signature that
\* is not confirmed: after every successful sendRawTransaction, and on the
\* legacy path only with a signature recovered from a timeout error; a
\* successful sendAndConfirmTransaction returns its signature with no
\* settle delay, confirmation call or status query.
C10_ConfirmationPhaseEntry ==
    script = GT =>
        /\ settleDelays <= 1
        /\ (pc = "settle" \/ settleDelays = 1) <=> (submittedBy = "raw" \/ recovered)
        /\ (confirmCalls > 0 \/ polling \/ queries > 0 \/ lookups > 0) => settleDelays = 1
        /\ submittedBy = "legacy" =>
              /\ returned /\ result = submitted /\ outcome = "Confirmed"
              /\ ~recovered
              /\ settleDelays = 0 /\ confirmCalls = 0 /\ ~polling
              /\ queries = 0 /\ lookups = 0

C10_Witness ==
    /\ script = GT
    /\ submittedBy = "legacy"
    /\ versioned = "failed"
    /\ pc = "done"

\* state of the confirmation phase of get-tokens.js, in the words of the
\* state machine: Submitted (settle delay and direct confirmation pending),
\* Polling, or the outcome the phase ended with
Phase ==
    IF script # GT THEN "outside"
    ELSE IF returned THEN (IF settleDelays = 1 THEN outcome ELSE "outside")
    ELSE IF pc \in {"settle", "blockHeight", "blockhash", "confirm"} THEN "Submitted"
    ELSE IF pc = "poll" THEN "Polling"
    ELSE "outside"

PhaseStep ==
    /\ Phase = "Submitted" => Phase' \in {"Submitted", "Confirmed", "Polling"}
    /\ Phase = "Polling" => Phase' \in {"Polling", "Confirmed", "Failed", "Unknown"}
    /\ Phase \in {"Confirmed", "Failed", "Unknown"} => Phase' = Phase
    /\ (script = GT /\ confirmCalls' > confirmCalls) =>
          (Phase = "Submitted" /\ settleDelays = 1 /\ confirmCalls = 0)
    /\ (Phase = "Submitted" /\ Phase' = "Confirmed") => confirmCalls' = confirmCalls + 1
    /\ (Phase' = "Polling" /\ Phase # "Polling") =>
          /\ Phase = "Submitted" /\ settleDelays = 1
          /\ pc \in {"blockHeight", "blockhash", "confirm"}
          /\ queries' = 0 /\ retries' = 0
    /\ queries' > queries => Phase = "Polling"
    /\ lookups' > lookups =>
          (Phase = "Polling" /\ retries = MaxRetries /\ queries = MaxRetries /\ lookups = 0)
    /\ (Phase' = "Failed" /\ Phase # "Failed") => Phase = "Polling"
    /\ (Phase' = "Unknown" /\ Phase # "Unknown") => (Phase = "Polling" /\ lookups' = 1)

\* C11: the confirmation phase of get-tokens.js follows the state machine:
\* one direct confirmation after the settle delay; polling starts only from
\* a direct confirmation attempt that threw; the history lookup happens only
\* after polling used up all retries; Failed and Unknown are entered only
\* from Polling; nothing leaves Confirmed, Failed or Unknown.
C11_ConfirmationStateMachine == [][PhaseStep]_vars

C11_Witness ==
    /\ Phase = "Unknown"
    /\ confirmCalls = 1
    /\ queries = MaxRetries
    /\ pc = "done"

\* C12: checkTransactionStatus always terminates when every call and sleep
\* returns: it makes at most 10 status queries and one history lookup and
\* then has a result, and when no query was conclusive the result comes from
\* the history lookup (confirmed or unknown).
C12_PollingTerminates ==
    /\ [](queries <= MaxRetries /\ lookups <= 1)
    /\ [](status # "none" => polling)
    /\ []((status # "none" /\ inconclusive + threw = queries) =>
            (queries = MaxRetries /\ lookups = 1 /\ status \in {"true", "null"}))
    /\ (polling ~> (status # "none"))

C12_Witness ==
    /\ polling
    /\ status = "null"
    /\ inconclusive + threw = MaxRetries
    /\ threw > 0

\* C13: in get-tokens.js a failed sendAndConfirmTransaction whose message is
\* not timeout-like, or carries no signature after "Check signature ", ends
\* the run: executeSwap returns null with no settle delay, no confirmation
\* call and no status query.
C13_LegacyFailureFatal ==
    ( /\ script = GT
      /\ legacySends = 1
      /\ pc # "legacySend"
      /\ submittedBy = "none"
      /\ \/ ~lastMsg.wasNotConfirmed
         \/ ~lastMsg.unknownIfSucceeded
         \/ ~lastMsg.hasPhrase
         \/ lastMsg.tail = <<>>
         \/ Head(lastMsg.tail) \notin Alnum )
    =>
    /\ returned /\ result = Null /\ outcome = "Failed"
    /\ ~recovered
    /\ settleDelays = 0 /\ confirmCalls = 0 /\ ~polling
    /\ queries = 0 /\ lookups = 0

C13_Witness ==
    /\ script = GT
    /\ legacySends = 1
    /\ submittedBy = "none"
    /\ ~IsTimeoutLike(lastMsg)
    /\ lastMsg.hasPhrase /\ lastMsg.tail = <<"A", " ">>
    /\ pc = "done"

\* C14: when the POST /swap response has no data or no swapTransaction,
\* executeSwap returns null and nothing was deserialized, signed, submitted
\* or confirmed.
C14_NoPayloadFails ==
    swapResponse \in {"noData", "noPayload"} =>
        /\ returned /\ result = Null /\ outcome = "Failed"
        /\ versioned = "untried" /\ ~legacyEntered
        /\ rawSends = 0 /\ legacySends = 0 /\ submitted = Null
        /\ settleDelays = 0 /\ confirmCalls = 0 /\ ~polling
        /\ queries = 0 /\ lookups = 0

C14_Witness ==
    /\ script = IS
    /\ swapResponse = "noPayload"
    /\ builds = 1
    /\ pc = "done"

\* C15 (as claimed): the result of executeSwap tells Confirmed from Unknown
\* for the same signature, and a Failed result carries its reason.
C15_TriStateResult ==
    returned =>
        /\ outcome = "Unknown" => result # ResultForStatus("true", txid)
        /\ outcome = "Failed" => result # Null

\* C15 (amended): the result of executeSwap is the signature or null and
\* nothing else: a run that ends Confirmed and a run that ends Unknown both
\* return the signature they were confirming, so the caller gets the same
\* result for the same signature, and a Failed run returns null without a
\* reason.
C15_SignatureOrNull ==
    (script = GT /\ returned) =>
        /\ result \in {Null, txid}
        /\ status \in {"true", "null"} => (result = txid /\ txid # Null)
        /\ status = "true" => outcome = "Confirmed"
        /\ status = "null" => outcome = "Unknown"
        /\ outcome = "Unknown" => result = ResultForStatus("true", txid)
        /\ (status = "false" \/ errSeen) => result = Null

C15_Witness ==
    /\ script = GT
    /\ outcome = "Unknown"
    /\ result = txid
    /\ txid # Null
    /\ pc = "done"

\* the list holds an entry with the wrapped-SOL mint address
WrappedSolListed == \E i \in 1..Len(tokenList) : tokenList[i].address = WsolMint
FirstWrappedSol ==
    tokenList[CHOOSE i \in 1..Len(tokenList) :
                 /\ tokenList[i].address = WsolMint
                 /\ \A j \in 1..(i - 1) : tokenList[j].address # WsolMint]
IsListEntry(r) == \E i \in 1..Len(tokenList) : tokenList[i] = r

\* C18 (as claimed): for every token list, a lookup of SOL in any letter
\* case returns the synthetic native record.
C18_SolAlwaysNative ==
    (lkPc = "done" /\ ToUpperCase(symbol) = SOL) =>
        /\ lkResult # Undefined
        /\ lkResult.isNative
        /\ lkResult.symbol = SOL
        /\ lkResult.name = "Native SOL"

\* C18 (amended): in get-tokens.js and part_000 a lookup of SOL in any
\* letter case returns the synthetic native record, built from the first
\* entry with the wrapped-SOL mint address, when the list has such an entry;
\* when it has none, and in interactive-swap.js and
\* interactive-swap-devnet.js always, the lookup gives a plain list entry
\* or undefined and never a native record.
C18_SolNativeWhenWrappedListed ==
    (lkPc = "done" /\ ToUpperCase(symbol) = SOL) =>
        IF lkScript \in {GT, P0} /\ WrappedSolListed
        THEN /\ lkResult.isNative
             /\ lkResult.symbol = SOL
             /\ lkResult.name = "Native SOL"
             /\ lkResult.address = WsolMint
             /\ lkResult.verified = FirstWrappedSol.verified
        ELSE \/ lkResult = Undefined
             \/ IsListEntry(lkResult) /\ ~lkResult.isNative

C18_Witness ==
    /\ lkPc = "done"
    /\ lkScript = GT
    /\ symbol = <<"s", "o", "l">>
    /\ Len(tokenList) = 2
    /\ tokenList[1].address = OtherMint /\ tokenList[1].symbol = SOL
    /\ tokenList[2].address = WsolMint /\ tokenList[2].symbol # SOL
    /\ lkResult.isNative

\* the answer stated entry by entry: the first exact match, else the first
\* verified containing entry, else the first containing entry
SymbolAt(i) == ToUpperCase(tokenList[i].symbol)
ExactAt == {i \in 1..Len(tokenList) : SymbolAt(i) = ToUpperCase(symbol)}
ContainingAt == {i \in 1..Len(tokenList) : Includes(SymbolAt(i), ToUpperCase(symbol))}
VerifiedContainingAt == {i \in ContainingAt : tokenList[i].verified}
First(S) == CHOOSE i \in S : \A j \in S : i <= j
ExpectedToken ==
    IF ExactAt # {} THEN tokenList[First(ExactAt)]
    ELSE IF VerifiedContainingAt # {} THEN tokenList[First(VerifiedContainingAt)]
    ELSE IF ContainingAt # {} THEN tokenList[First(ContainingAt)]
    ELSE Undefined

\* C19 (as claimed): findTokenBySymbol returns, comparing case-insensitively,
\* the first exact match, else the first verified containing entry, else the
\* first containing entry, else undefined.
C19_ExactThenVerified == lkPc = "done" => lkResult = ExpectedToken

\* C19 (amended): the same, except that in get-tokens.js and part_000 a
\* lookup of SOL in any letter case on a list with a wrapped-SOL mint entry
\* returns the native record made from the first such entry instead.
C19_ExactThenVerifiedButSol ==
    lkPc = "done" =>
        IF lkScript \in {GT, P0} /\ ToUpperCase(symbol) = SOL /\ WrappedSolListed
        THEN lkResult = NativeSol(FirstWrappedSol)
        ELSE lkResult = ExpectedToken

C19_Witness ==
    /\ lkPc = "done"
    /\ lkScript = IS
    /\ symbol = <<"S", "O">>
    /\ Len(tokenList) = 3
    /\ ~tokenList[2].verified /\ tokenList[3].verified
    /\ tokenList[1].symbol = <<"U", "S", "D", "C">>
    /\ lkResult = tokenList[3]
    /\ tokenList[3] # tokenList[2]

\* the network a cache file belongs to
OwnerOf(f) == IF f = DevnetFile THEN Devnet ELSE Mainnet
ByGetTokenList == lastCall.by \in {GT, P0, IS, ISD}

\* C20: getTokenList makes the request only when the cache file of the
\* network it runs on is absent; a successful fetch writes that file; a call
\* that finds the file returns its content without a request, and that
\* content is the list returned when the file was written; no run touches
\* the cache file of the other network.
C20_CachePerNetwork ==
    /\ ByGetTokenList =>
          /\ lastCall.fetched <=> ~lastCall.cached
          /\ (lastCall.fetched /\ ~lastCall.exited) =>
                /\ lastCall.wrote
                /\ \E f \in lastCall.touched :
                      /\ OwnerOf(f) = lastCall.net
                      /\ files[f] = Stringify(lastCall.returned)
          /\ lastCall.cached =>
                /\ ~lastCall.wrote /\ ~lastCall.exited
                /\ \E f \in lastCall.touched :
                      /\ OwnerOf(f) = lastCall.net
                      /\ lastCall.returned = written[f]
    /\ \A f \in lastCall.touched : OwnerOf(f) = lastCall.net
    /\ \A f \in CacheFiles : files[f] # Absent => Parse(files[f]) = written[f]

C20_Witness ==
    /\ lastCall.by = GT
    /\ lastCall.net = Devnet
    /\ lastCall.cached
    /\ Len(lastCall.returned) = 2
    /\ lastCall.returned[1].tags = <<"devnet">>
    /\ lastCall.returned # DevnetFilter(remote)
    /\ files[MainnetFile] # Absent
    /\ Parse(files[MainnetFile]) # lastCall.returned

\* C16: at most one network request is in flight at any time: a request is
\* issued only when every earlier one has been answered, and the quote
\* requests of the loop are issued in the order of POPULAR_TOKENS.
C16_OneRequestInFlight ==
    /\ Cardinality(inFlight) <= 1
    /\ inFlight # {} <=> qPc \in {"awaitQuote", "awaitCustom"}
    /\ \A r \in 1..Len(requests) :
          /\ requests[r].answer = "pending" <=> r \in inFlight
          /\ r \in inFlight => r = Len(requests)
    /\ \A r1, r2 \in 1..Len(requests) :
          r1 < r2 =>
             \/ requests[r2].index = 0
             \/ /\ requests[r1].index # 0
                /\ requests[r1].index < requests[r2].index

C16_Witness ==
    /\ Len(requests) = 3
    /\ requests[1].index = 1
    /\ requests[2].index = 3
    /\ requests[3].index = 0
    /\ inFlight = {3}

\* the turns of the loop that ask for a quote, in order
RECURSIVE AskedFrom(_)
AskedFrom(i) ==
    IF i > Len(POPULAR_TOKENS) THEN <<>>
    ELSE LET toToken == FindTokenBySymbol(GT, tokenList, POPULAR_TOKENS[i])
         IN  IF \/ ToUpperCase(POPULAR_TOKENS[i]) = ToUpperCase(fromToken.symbol)
                \/ toToken = Undefined
             THEN AskedFrom(i + 1)
             ELSE <<i>> \o AskedFrom(i + 1)
LoopRequests == SelectSeq(requests, LAMBDA r : r.index # 0)
Quoted == {r \in 1..Len(requests) : requests[r].answer = "quote"}
LoopOver == qPc \in {"custom", "awaitCustom", "display", "select", "exit"}

\* C17: a destination whose request fails is skipped and the loop goes on:
\* every destination of the loop that is not skipped gets its request, the
\* quotes list holds exactly one entry per request that returned a quote,
\* in request order, and the run exits for lack of routes only when no
\* request returned a quote.
C17_FailedQuoteSkipped ==
    /\ Len(quotes) = Cardinality(Quoted)
    /\ \A k \in 1..Len(quotes) :
          /\ quotes[k].quoteResponse \in Quoted
          /\ quotes[k].token = requests[quotes[k].quoteResponse].token
          /\ \A j \in 1..(k - 1) : quotes[j].quoteResponse < quotes[k].quoteResponse
    /\ LoopOver =>
          /\ Len(LoopRequests) = Len(AskedFrom(1))
          /\ \A k \in 1..Len(LoopRequests) : LoopRequests[k].index = AskedFrom(1)[k]
    /\ qPc = "exit" => Quoted = {}
    /\ qPc = "select" => Quoted # {}

C17_Witness ==
    /\ qPc = "select"
    /\ Len(requests) = 3
    /\ requests[1].answer = "threw"
    /\ requests[2].answer = "quote"
    /\ requests[3].answer = "empty"
    /\ Len(quotes) = 1

\* a step in which a status query threw
QueryThrew == threw' = threw + 1

\* C27: a status query that throws neither ends polling nor reaches the
\* caller: it costs one retry and one delay, as an inconclusive answer
\* does, so the two kinds together are the retries used and never exceed
\* maxRetries, and when they use up all retries the history lookup follows.
C27_ThrownQueryCountsAsRetry ==
    /\ [](/\ threw + inconclusive = retries
          /\ retries = Len(sleeps)
          /\ threw + inconclusive <= MaxRetries
          /\ threw > 0 => ~escaped
          /\ (status # "none" /\ threw + inconclusive = MaxRetries) => lookups = 1)
    /\ [][QueryThrew =>
            /\ retries' = retries + 1
            /\ sleeps' = Append(sleeps, delay)
            /\ pc' = "poll"
            /\ ~returned' /\ ~escaped' /\ status' = "none"]_vars

C27_Witness ==
    /\ threw > 0
    /\ inconclusive > 0
    /\ threw + inconclusive = MaxRetries
    /\ lookups = 1
    /\ found = "record"
    /\ outcome = "Confirmed"

\* C24: when the direct confirmTransaction call resolves with a result that
\* reports a transaction error, executeSwap does not return the signature
\* as a confirmed success.
C24_DirectErrorNotConfirmed ==
    (returned /\ directErr) => ~(outcome = "Confirmed" /\ result = txid)

\* C26: no quote request has an output mint equal to the input mint.
C26_NoSelfQuote ==
    \A r \in 1..Len(requests) : requests[r].token.address # fromToken.address

\* the display shows a whole number
WholeResult == amount % Pow(10, decimals) = 0
HasPoint(str) == \E i \in 1..Len(str) : str[i] = "."
BareDigits(str) == SelectSeq(str, LAMBDA c : c # ",")

\* C23 (as claimed): outAmount 1000000 with decimals 6 is displayed as
\* "1.00", and any whole-number result is displayed with two fraction digits.
C23_TwoFractionDigits ==
    (fmtPc = "done" /\ WholeResult) =>
        /\ Len(display) >= 4
        /\ SubSeq(display, Len(display) - 2, Len(display)) = <<".", "0", "0">>
        /\ (amount = 1000000 /\ decimals = 6) => display = <<"1", ".", "0", "0">>

\* C23 (amended): outAmount 1000000 with decimals 6 is displayed as "1";
\* a whole-number result is displayed without a decimal point and without
\* fraction digits (its digits grouped in threes by commas), and any other
\* result with at most decimals fraction digits, the last one not 0.
C23_NoFractionForWhole ==
    fmtPc = "done" =>
        /\ (amount = 1000000 /\ decimals = 6) => display = <<"1">>
        /\ WholeResult =>
              /\ ~HasPoint(display)
              /\ BareDigits(display) = DigitsOf(amount \div Pow(10, decimals))
        /\ ~WholeResult =>
              /\ HasPoint(display)
              /\ display[Len(display)] # "0"
              /\ \E i \in 1..Len(display) :
                    /\ display[i] = "."
                    /\ Len(display) - i <= decimals

C23_Witness ==
    /\ fmtPc = "done"
    /\ amount = 1000000
    /\ decimals = 6
    /\ display = <<"1">>

\* the format the claim assigns to a value of the variable
HasChar(str, c) == \E i \in 1..Len(str) : str[i] = c
ClaimedRoute ==
    IF HasChar(privateKeyEnv, "[") THEN "json"
    ELSE IF HasChar(privateKeyEnv, ",") THEN "csv"
    ELSE "base58"
KeyCallOver == keyPc \in {"returned", "exited"}
FailureExits ==
    /\ keyPc = "exited" <=> keyFailed
    /\ keyPc = "exited" => keyExit = 1
    /\ keyPc = "returned" => keyExit = -1

\* C22 (as claimed): loadWalletKey uses SOLANA_PRIVATE_KEY when it is set,
\* in the format its content selects, and then never reads the key file;
\* it reads the key file when the variable is unset; a failure on either
\* route exits with status 1.
C22_EnvKeyFirst ==
    KeyCallOver =>
        /\ privateKeyEnv # <<>> => (keyRoute = ClaimedRoute /\ keyFileReads = 0)
        /\ privateKeyEnv = <<>> => (keyRoute = "file" /\ keyFileReads = 1)
        /\ FailureExits

\* C22 (amended): the same for loadWalletKey of get-tokens.js, part_000 and
\* interactive-swap-devnet.js; loadWalletKey of interactive-swap.js never
\* looks at SOLANA_PRIVATE_KEY and always reads the key file; in all of
\* them a failure exits with status 1.
C22_EnvKeyFirstButOldScript ==
    KeyCallOver =>
        /\ (keyScript # IS /\ privateKeyEnv # <<>>) =>
              (keyRoute = ClaimedRoute /\ keyFileReads = 0)
        /\ (keyScript = IS \/ privateKeyEnv = <<>>) =>
              (keyRoute = "file" /\ keyFileReads = 1)
        /\ FailureExits

C22_Witness ==
    /\ keyScript = GT
    /\ privateKeyEnv = <<"[", ",">>
    /\ keyRoute = "json"
    /\ keyPc = "exited"
    /\ keyFileReads = 0

\* C29: createTokenAccountIfNeeded sends an account-creation transaction
\* only when the associated token account does not exist: once a call has
\* returned for an address, no later call sends a transaction for it, and
\* all calls for the same owner and mint return the same address.
C29_CreateOnlyWhenMissing ==
    /\ [](/\ succeeded \subseteq accounts
          /\ \A a \in AtaAddresses : Cardinality(returnedAta[a]) <= 1
          /\ lastAta.existed => ~lastAta.sent
          /\ lastAta.ended = "returned" =>
                /\ lastAta.address \in accounts
                /\ lastAta.address \in returnedAta[<<lastAta.owner, lastAta.mint>>])
    /\ [][\A a \in AtaAddresses :
            ataSends'[a] # ataSends[a] =>
                /\ a \notin accounts
                /\ a \notin succeeded
                /\ ataSends'[a] = ataSends[a] + 1]_vars

C29_Witness ==
    /\ ataCalls = 3
    /\ lastAta.ended = "returned"
    /\ lastAta.existed
    /\ ataSends[lastAta.address] = 2
    /\ lastAta.address \in succeeded

\* ---------------------------------------------------------------------
\* main's dialogue
\* ---------------------------------------------------------------------

\* the amount has been typed and converted
AmountAsked == inputAmountInSmallestUnit # Unset

\* the selection has been typed and converted
SelectionAsked == selectedIndex # Unset

\* a whole number above zero
PositiveInteger(x) == x.kind = "finite" /\ x.val > 0

\* the typed amount is not a number, is zero or negative, or is less than
\* one smallest unit
RejectableAmount ==
    LET x == ParseFloat(amountText)
    IN  \/ IsNaN(x)
        \/ AtMostZero(x)
        \/ SmallestUnit(x, fromDecimals) = Finite(0)

\* C28: in every swap script each quote request carries a positive whole
\* number of smallest units, and an amount that is not a number, zero,
\* negative or rounds down to zero ends the process with status 1 before
\* any quote request.
C28_QuoteAmountPositiveInteger ==
    /\ \A i \in 1..Len(quoteRequests) : PositiveInteger(quoteRequests[i])
    /\ (AmountAsked /\ RejectableAmount) =>
          (mainPc = "exit" /\ exitCode = 1 /\ quoteRequests = <<>>)

\* the setup failures, as main saw them
KeyFailure == "Error loading wallet key:" \in mainPrinted

UnknownSourceToken == "Token with symbol not found" \in mainPrinted

NoRoute == "No swap routes found" \in mainPrinted

NonPositiveAmount ==
    AmountAsked /\ (IsNaN(ParseFloat(amountText)) \/ AtMostZero(ParseFloat(amountText)))

NonNumericSelection == SelectionAsked /\ IsNaN(ParseInt(selection))

\* C21 as stated: a missing or invalid key, an unknown source token, no
\* route for any destination, a non-numeric or non-positive amount and a
\* non-numeric selection each end the process with a non-zero status.
C21_SetupFailureExitsNonZero ==
    (KeyFailure \/ UnknownSourceToken \/ NoRoute \/ NonPositiveAmount
       \/ NonNumericSelection)
    => (mainPc = "exit" /\ exitCode > 0)

\* C21 amended: the key, token, route and amount failures end the process
\* with status 1, and without a quote no selection is asked for; a
\* selection that is not a number, or is outside 1..number of quotes, ends
\* it with status 0 and nothing is built or submitted.
C21_SetupFailureExitsOneSelectionZero ==
    /\ (KeyFailure \/ UnknownSourceToken \/ NoRoute \/ NonPositiveAmount)
          => (mainPc = "exit" /\ exitCode = 1)
    /\ mainPc \in {"select", "confirm", "report"} => mainQuotes # <<>>
    /\ (SelectionAsked /\ InvalidSelection(selectedIndex, Len(mainQuotes)))
          => (mainPc = "exit" /\ exitCode = 0 /\ buildRequests = 0
              /\ submissions = 0)

\* a selection that is not a number has been typed after a quote was found
C21_Witness ==
    /\ NonNumericSelection
    /\ selection # <<>>
    /\ mainQuotes # <<>>
    /\ mainPc = "exit"

\* the selection is a number in 1..number of quotes
SelectionInRange ==
    LET chosen == ParseInt(selection)
    IN  /\ SelectionAsked
        /\ chosen.kind = "finite"
        /\ chosen.val \in 1..Len(mainQuotes)

AnsweredYes == confirm \in {"y", "Y"}

\* C25: no build request is sent and no transaction is submitted unless the
\* selection is in 1..number of quotes and the answer to the confirmation
\* is 'y' or 'Y'; a run that ended otherwise made none; the quote handed to
\* executeSwap is the one at the chosen position, once.
C25_SwapOnlyOnSelectionAndYes ==
    /\ (buildRequests > 0 \/ submissions > 0 \/ executed # <<>>)
          => (SelectionInRange /\ AnsweredYes)
    /\ (mainPc \in {"done", "exit"} /\ ~(SelectionInRange /\ AnsweredYes))
          => (buildRequests = 0 /\ submissions = 0)
    /\ executed # <<>>
          => executed = <<mainQuotes[ParseInt(selection).val]>>
    /\ submissions <= buildRequests

\* the second of two quotes was chosen, confirmed and submitted
C25_Witness ==
    /\ Len(mainQuotes) = 2
    /\ ParseInt(selection) = Finite(2)
    /\ confirm = "Y"
    /\ executed = <<mainQuotes[2]>>
    /\ submissions = 1

SuccessLine == "Swap successful! (verified by balance change)"

\* C30: in get-tokens.js, after executeSwap returned a signature the
\* success line is printed only if both balance reads after the swap
\* returned a number and the new source balance is below the one read
\* before the swap; after null, 'Swap failed!' is printed and no balance is
\* read again.
C30_SuccessOnlyOnLowerBalance ==
    mainScript = GT =>
       /\ SuccessLine \in mainPrinted =>
             /\ mainTxid = "sig"
             /\ balanceReads = 2
             /\ newToTokenBalance.kind = "finite"
             /\ newFromTokenBalance.kind = "finite"
             /\ balance.kind = "finite"
             /\ newFromTokenBalance.val < balance.val
       /\ (mainTxid = "null" /\ mainPc = "done") =>
             /\ "Swap failed!" \in mainPrinted
             /\ SuccessLine \notin mainPrinted
             /\ balanceReads = 0

\* the success line has been printed by get-tokens.js
C30_Witness ==
    /\ mainScript = GT
    /\ SuccessLine \in mainPrinted
    /\ mainPc = "done"

====
